---- MODULE Spec2Model ----
(***************************************************************************)
(* d-scribe: speaker segmenter (session/recorder.rs) and the live-mode     *)
(* orchestration around it (lib.rs: start_recording, stop_recording, the   *)
(* periodic flush tick and the live transcription worker).                 *)
(*                                                                         *)
(* Times are session-clock milliseconds.  A behaviour either runs on a     *)
(* free clock (every handler reads some value not below the previous       *)
(* reading, up to MaxClock) or replays one of the end-to-end scenarios     *)
(* S1..S4 with their literal clock values.                                 *)
(***************************************************************************)
EXTENDS Integers, Sequences, FiniteSets, TLC

(* ---------------------------------------------------------------------- *)
(* Bounds of the model                                                     *)
(* ---------------------------------------------------------------------- *)
MaxClock == 3
MaxBufferMs == 2
MaxSegments == 2

(* calls of start_recording that follow a stop_recording *)
MaxRestarts == 1

Users == {"A", "B"}

(* Option<T> as a sequence of length 0 or 1 *)
None == <<>>
Some(x) == <<x>>
IsSome(o) == o # <<>>
Unwrap(o) == o[1]

(* HashMap helpers: a map is a function whose DOMAIN is its key set *)
EmptyMap == [k \in {} |-> 0]
Insert(m, k, v) == [x \in (DOMAIN m) \cup {k} |-> IF x = k THEN v ELSE m[x]]
Remove(m, k) == [x \in (DOMAIN m) \ {k} |-> m[x]]

(* every iteration order a HashMap may produce for the key set S *)
Orders(S) == {o \in [1..Cardinality(S) -> S] : \A i, j \in 1..Cardinality(S) : o[i] = o[j] => i = j}

(* u64::saturating_sub *)
saturating_sub(a, b) == IF a >= b THEN a - b ELSE 0

(* channel_info.user_labels: A has a label, B has none *)
user_labels == [u \in {"A"} |-> "Alice"]

(* session.user_labels.get(user_id).cloned() *)
speaker_name(user_id) == IF user_id \in DOMAIN user_labels THEN Some(user_labels[user_id]) ELSE None

SessionSegment(start_ms, end_ms, user_id) ==
    [start_ms |-> start_ms, end_ms |-> end_ms, user_id |-> user_id,
     speaker_name |-> speaker_name(user_id)]

PendingSegment(start_ms, stop_ms, user_id) ==
    [start_ms |-> start_ms, stop_ms |-> stop_ms, user_id |-> user_id]

(* ---------------------------------------------------------------------- *)
(* audio/buffer.rs: bounds and constants                                   *)
(* ---------------------------------------------------------------------- *)

(* At 16 kHz: 1 ms = 16 samples *)
SAMPLES_PER_MS == 16

(* MAX_SAMPLES is 4,800,000 in the source; the model runs the same code with
   a capacity of ScenarioCapacity (scenario S5) or MaxCapacity samples *)
ScenarioCapacity == 16
MaxCapacity == 24

(* samples pushed to one buffer, and the largest start_ms / end_ms handed to
   extract *)
MaxPushed == 40
MaxMs == 3

(* samples a capture thread produces for one stream *)
MaxCaptured == 3

(* u64 and usize arithmetic wraps modulo 2^64 in a build without overflow
   checks; the model wraps modulo WordModulus, which like 2^64 exceeds every
   sample index that occurs *)
WordModulus == 1024

(* ---------------------------------------------------------------------- *)
(* End-to-end scenarios S1..S4 (spec section 8), literal values            *)
(* ---------------------------------------------------------------------- *)
Ev(is_start, user_id, at) == [is_start |-> is_start, user_id |-> user_id, at |-> at]

ScenarioBufferMs == 1000

ScenarioEvents(name) ==
    CASE name = "S1" -> <<Ev(TRUE, "A", 0), Ev(FALSE, "A", 500), Ev(TRUE, "A", 1200), Ev(FALSE, "A", 2000)>>
      [] name = "S2" -> <<Ev(TRUE, "A", 0), Ev(FALSE, "A", 500), Ev(TRUE, "A", 2000), Ev(FALSE, "A", 3000)>>
      [] name = "S3" -> <<Ev(TRUE, "A", 0), Ev(TRUE, "B", 200), Ev(FALSE, "A", 800), Ev(FALSE, "B", 1000)>>
      [] name = "S4" -> <<Ev(TRUE, "A", 0), Ev(FALSE, "A", 100), Ev(TRUE, "B", 300)>>
      [] OTHER -> <<>>

ScenarioNames == {"S1", "S2", "S3", "S4"}

(* ---------------------------------------------------------------------- *)
(* State                                                                   *)
(* ---------------------------------------------------------------------- *)
VARIABLES
    platform,               \* "windows" or "other": the build (audio/mod.rs cfg)
    scenario,               \* "free" or the scenario being replayed
    script,                 \* events of the scenario still to arrive
    clock,                  \* latest session-clock reading (ms since start_time)
    ACTIVE_SESSION,         \* Option<ActiveSession>
    SEGMENT_FLUSH_TX,       \* TRUE iff a live publish channel is registered
    liveQueue,              \* segments sent on the live channel, not yet received
    AUDIO_HANDLE,           \* TRUE iff Some(handle)
    SESSION_AUDIO_PATHS,    \* TRUE iff Some(paths)
    LIVE_TRANSCRIPT_TEXTS,  \* Vec<String>
    WAS_LIVE_RECORDING,     \* bool
    tickTask,               \* "none", "running", "exited"
    worker,                 \* "none", "idle", "busy", "push", "exited"
    workerSeg,              \* Option: segment the worker is processing
    workerText,             \* text the worker obtained for workerSeg
    workerIdx,              \* idx the worker read from LIVE_TRANSCRIPT_TEXTS.len()
    emitted,                \* "transcript-segment" events emitted so far
    calls,                  \* "init", "started", "start_failed", "stopped"
    returned,               \* Option: SessionState returned by stop_recording
    transcribed,            \* Option: Result of the last transcribe_session_command
    previous,               \* the live worker an earlier session left behind, and its channel
    overflow_checks,        \* TRUE: the build traps integer overflow (debug profile)
    capacity,               \* capacity of the AudioBuffer (MAX_SAMPLES, scaled)
    buf,                    \* an AudioBuffer: [samples, base_sample]
    pushed,                 \* number of samples pushed to buf so far
    extracted,              \* Option: [start_ms, end_ms, result] of the last extract
    stop_flag,              \* AudioCaptureHandle.stop_flag
    loopback_buf,           \* Option<AudioBuffer> start_recording made for the loopback stream
    mic_buf,                \* Option<AudioBuffer> start_recording made for the microphone stream
    wav,                    \* samples written to the WAV file of each stream
    captureThread,          \* per stream: "none", "running", "finalized", "failed"
    stop_flags,             \* stop flag of every pair of capture threads start_recording started
    rpc,                    \* the RPC client: RpcLock, statics of discord_rpc/mod.rs, connection task
    inbox,                  \* frames the peer has written that the client has not read yet
    peer,                   \* the Discord side of the transport
    connectReturned         \* Option: "Ok" or "Err", what connect() returned

(* an AudioBuffer exercised through push and extract *)
ringVars == <<overflow_checks, capacity, buf, pushed, extracted>>

(* the capture threads of audio/capture.rs and the buffers handed to them *)
captureVars == <<stop_flag, loopback_buf, mic_buf, wav, captureThread, stop_flags>>

(* one pair of capture threads, followed step by step *)
pairVars == <<stop_flag, loopback_buf, mic_buf, wav, captureThread>>

(* the RPC connection of discord_rpc/client.rs and its peer *)
rpcVars == <<rpc, inbox, peer, connectReturned>>

(* the statics and tasks of the recording handlers of lib.rs *)
recordingVars == <<platform, scenario, script, clock, ACTIVE_SESSION, SEGMENT_FLUSH_TX, liveQueue,
                   AUDIO_HANDLE, SESSION_AUDIO_PATHS, LIVE_TRANSCRIPT_TEXTS, WAS_LIVE_RECORDING,
                   tickTask, worker, workerSeg, workerText, workerIdx, emitted, calls, returned>>

(* what the recording handlers and tasks of lib.rs leave alone *)
restVars == <<transcribed, previous, ringVars, captureVars, rpcVars>>

vars == <<platform, scenario, script, clock, ACTIVE_SESSION, SEGMENT_FLUSH_TX, liveQueue,
          AUDIO_HANDLE, SESSION_AUDIO_PATHS, LIVE_TRANSCRIPT_TEXTS, WAS_LIVE_RECORDING,
          tickTask, worker, workerSeg, workerText, workerIdx, emitted, calls, returned,
          restVars>>

(* ---------------------------------------------------------------------- *)
(* session/recorder.rs                                                     *)
(* ---------------------------------------------------------------------- *)

(* start_session: the ActiveSession it builds *)
NewSession(segment_merge_buffer_ms, live_mode_enabled) ==
    [segments |-> <<>>,
     open_segments |-> EmptyMap,
     pending_cooldown |-> EmptyMap,
     segment_merge_buffer_ms |-> IF segment_merge_buffer_ms >= 1 THEN segment_merge_buffer_ms ELSE 1,
     live_mode_enabled |-> live_mode_enabled]

(* The recorder operators work on rs = [session, queue]: the active session
   and the contents of the live channel; tx says whether SEGMENT_FLUSH_TX is
   Some. *)
Rec(session, queue) == [session |-> session, queue |-> queue]

(* tx.send(seg) when SEGMENT_FLUSH_TX is Some *)
SendLive(queue, tx, seg) == IF tx THEN Append(queue, seg) ELSE queue

(* flush_pending that puts the segment at the front of the list *)
flush_pending_Front(rs, tx, user_id) ==
    IF user_id \in DOMAIN rs.session.pending_cooldown
    THEN LET pending == rs.session.pending_cooldown[user_id]
             seg == SessionSegment(pending.start_ms, pending.stop_ms, pending.user_id)
         IN Rec([rs.session EXCEPT !.pending_cooldown = Remove(@, user_id),
                                   !.segments = <<seg>> \o @],
                SendLive(rs.queue, tx, seg))
    ELSE rs

(* flush_pending: the segment goes to the list and, if SEGMENT_FLUSH_TX is
   set, to the live channel *)
flush_pending(rs, tx, user_id) ==
    IF user_id \in DOMAIN rs.session.pending_cooldown
    THEN LET pending == rs.session.pending_cooldown[user_id]
             seg == SessionSegment(pending.start_ms, pending.stop_ms, pending.user_id)
         IN Rec([rs.session EXCEPT !.pending_cooldown = Remove(@, user_id),
                                   !.segments = Append(@, seg)],
                SendLive(rs.queue, tx, seg))
    ELSE rs

(* for user_id in <order> { flush_pending(session, &user_id) } *)
RECURSIVE FlushEach(_, _, _)
FlushEach(rs, tx, order) ==
    IF order = <<>> THEN rs
    ELSE FlushEach(flush_pending(rs, tx, Head(order)), tx, Tail(order))

(* the filter with the operands of saturating_sub swapped *)
FlushDue_Swapped(elapsed, p, buffer) == saturating_sub(p.stop_ms, elapsed) >= buffer

(* the filter of flush_pending_if_elapsed *)
FlushDue(elapsed, p, buffer) == saturating_sub(elapsed, p.stop_ms) >= buffer

(* keys of pending_cooldown that flush_pending_if_elapsed collects *)
ToFlush(session, elapsed) ==
    {id \in DOMAIN session.pending_cooldown :
        FlushDue(elapsed, session.pending_cooldown[id], session.segment_merge_buffer_ms)}

(* flush_pending_if_elapsed, order: the iteration order of to_flush *)
flush_pending_if_elapsed(rs, tx, order) == FlushEach(rs, tx, order)

(* the merge test with a strict comparison *)
MergeGap_Strict(gap, buffer) == gap < buffer

(* the merge test of record_speaking_event *)
MergeGap(gap, buffer) == gap <= buffer

(* StartUser with the new utterance opened at the old start_ms *)
StartUser_ReuseStart(rs, user_id, elapsed) ==
    LET session == rs.session
        buffer == session.segment_merge_buffer_ms
    IN IF user_id \in DOMAIN session.pending_cooldown
       THEN LET pending == session.pending_cooldown[user_id]
                gap == saturating_sub(elapsed, pending.stop_ms)
                removed == [session EXCEPT !.pending_cooldown = Remove(@, user_id)]
            IN IF MergeGap(gap, buffer)
               THEN Rec([removed EXCEPT !.open_segments = Insert(@, user_id, pending.start_ms)],
                        rs.queue)
               ELSE Rec([removed EXCEPT
                            !.segments = Append(@, SessionSegment(pending.start_ms, pending.stop_ms, pending.user_id)),
                            !.open_segments = Insert(@, user_id, pending.start_ms)],
                        rs.queue)
       ELSE IF user_id \notin DOMAIN session.open_segments
            THEN Rec([session EXCEPT !.open_segments = Insert(@, user_id, elapsed)], rs.queue)
            ELSE rs

(* START branch, after the other users' pendings were flushed *)
StartUser(rs, user_id, elapsed) ==
    LET session == rs.session
        buffer == session.segment_merge_buffer_ms
    IN IF user_id \in DOMAIN session.pending_cooldown
       THEN LET pending == session.pending_cooldown[user_id]
                gap == saturating_sub(elapsed, pending.stop_ms)
                removed == [session EXCEPT !.pending_cooldown = Remove(@, user_id)]
            IN IF MergeGap(gap, buffer)
               THEN Rec([removed EXCEPT !.open_segments = Insert(@, user_id, pending.start_ms)],
                        rs.queue)
               ELSE Rec([removed EXCEPT
                            !.segments = Append(@, SessionSegment(pending.start_ms, pending.stop_ms, pending.user_id)),
                            !.open_segments = Insert(@, user_id, elapsed)],
                        rs.queue)
       ELSE IF user_id \notin DOMAIN session.open_segments
            THEN Rec([session EXCEPT !.open_segments = Insert(@, user_id, elapsed)], rs.queue)
            ELSE rs

(* STOP that closes every open utterance, not only the user's own *)
StopUser_CloseAll(rs, user_id, elapsed) ==
    LET session == rs.session
        open == session.open_segments
        pend == session.pending_cooldown
    IN IF user_id \in DOMAIN open
       THEN Rec([session EXCEPT
                    !.open_segments = EmptyMap,
                    !.pending_cooldown = [x \in (DOMAIN pend) \cup (DOMAIN open) |->
                        IF x \in DOMAIN open THEN PendingSegment(open[x], elapsed, x) ELSE pend[x]]],
                rs.queue)
       ELSE IF user_id \in DOMAIN pend
            THEN Rec([session EXCEPT !.pending_cooldown[user_id].stop_ms = elapsed], rs.queue)
            ELSE rs

(* STOP that inserts the pending entry and leaves the open one in place *)
StopUser_KeepOpen(rs, user_id, elapsed) ==
    LET session == rs.session
    IN IF user_id \in DOMAIN session.open_segments
       THEN Rec([session EXCEPT
                    !.pending_cooldown = Insert(@, user_id,
                        PendingSegment(session.open_segments[user_id], elapsed, user_id))],
                rs.queue)
       ELSE IF user_id \in DOMAIN session.pending_cooldown
            THEN Rec([session EXCEPT !.pending_cooldown[user_id].stop_ms = elapsed], rs.queue)
            ELSE rs

(* STOP branch *)
StopUser(rs, user_id, elapsed) ==
    LET session == rs.session
    IN IF user_id \in DOMAIN session.open_segments
       THEN Rec([session EXCEPT
                    !.open_segments = Remove(@, user_id),
                    !.pending_cooldown = Insert(@, user_id,
                        PendingSegment(session.open_segments[user_id], elapsed, user_id))],
                rs.queue)
       ELSE IF user_id \in DOMAIN session.pending_cooldown
            THEN Rec([session EXCEPT !.pending_cooldown[user_id].stop_ms = elapsed], rs.queue)
            ELSE rs

(* the filter of the START branch inverted: keeps the user's own pending *)
Others_Self(session, user_id) == (DOMAIN session.pending_cooldown) \cap {user_id}

(* the pendings of other users, which a START flushes first *)
Others(session, user_id) == (DOMAIN session.pending_cooldown) \ {user_id}

record_speaking_event(rs, tx, is_start, user_id, elapsed, others) ==
    IF is_start
    THEN StartUser(FlushEach(rs, tx, others), user_id, elapsed)
    ELSE StopUser(rs, user_id, elapsed)

(* the drain loop of stop_session: reads[i] is the clock read for the i-th entry *)
RECURSIVE DrainOpen(_, _, _)
DrainOpen(session, order, reads) ==
    IF order = <<>> THEN session
    ELSE DrainOpen([session EXCEPT
                       !.segments = Append(@, SessionSegment(session.open_segments[Head(order)],
                                                             Head(reads), Head(order))),
                       !.open_segments = Remove(@, Head(order))],
                   Tail(order), Tail(reads))

(* stop_session without the drain of open_segments *)
stop_session_DropOpen(rs, tx, pendOrder, openOrder, reads) == FlushEach(rs, tx, pendOrder)

(* stop_session: the session as it is when the SessionState is built *)
stop_session(rs, tx, pendOrder, openOrder, reads) ==
    LET flushed == FlushEach(rs, tx, pendOrder)
    IN Rec(DrainOpen(flushed.session, openOrder, reads), flushed.queue)

(* SessionState returned by stop_session *)
SessionState(session) ==
    [segments |-> session.segments,
     transcript_texts |-> <<>>,
     live_mode_enabled |-> session.live_mode_enabled]

(* ---------------------------------------------------------------------- *)
(* Inputs                                                                  *)
(* ---------------------------------------------------------------------- *)

(* values elapsed_ms_since(start_time) may return now *)
ClockReads == IF scenario = "free" THEN clock..MaxClock ELSE {clock}

(* speaking events that may arrive now, with the clock value read for them *)
EventInputs ==
    IF scenario = "free"
    THEN {Ev(s, u, t) : s \in BOOLEAN, u \in Users, t \in clock..MaxClock}
    ELSE IF script # <<>> /\ IsSome(ACTIVE_SESSION) THEN {Head(script)} ELSE {}

(* segment_merge_buffer_ms handed to start_recording *)
BufferInputs == IF scenario = "free" THEN 0..MaxBufferMs ELSE {ScenarioBufferMs}

(* non-decreasing clock readings, one per drained open entry *)
ReadSeqs(n) == {r \in [1..n -> ClockReads] : \A i, j \in 1..n : i <= j => r[i] <= r[j]}

(* utterances the session has seen: the model admits at most MaxSegments *)
Utterances(session) ==
    Len(session.segments) + Cardinality(DOMAIN session.open_segments)
        + Cardinality(DOMAIN session.pending_cooldown)

(* the text a backend produces for a segment, and the empty string *)
TextFor(seg) == <<seg.user_id, seg.start_ms, seg.end_ms>>
EmptyText == <<>>

(* ---------------------------------------------------------------------- *)
(* lib.rs                                                                  *)
(* ---------------------------------------------------------------------- *)

(* start_audio_capture: Ok on the Windows build (capture.rs), Err on any other
   build (audio/mod.rs) *)
start_audio_capture_ok == platform = "windows"

(* no session has been restarted: no worker of an earlier session is left.
   restarts counts the calls of start_recording after a stop_recording;
   pushed are the positions of LIVE_TRANSCRIPT_TEXTS the earlier worker
   wrote, stale the positions of the returned transcript_texts it wrote *)
NoPrevious ==
    [restarts |-> 0, pc |-> "none", seg |-> None, text |-> EmptyText, idx |-> 0,
     queue |-> <<>>, pushed |-> {}, stale |-> {}]

InitState ==
    /\ scenario \in {"free"} \cup ScenarioNames
    /\ script = ScenarioEvents(scenario)
    /\ clock = 0
    /\ ACTIVE_SESSION = None
    /\ SEGMENT_FLUSH_TX = FALSE
    /\ liveQueue = <<>>
    /\ AUDIO_HANDLE = FALSE
    /\ SESSION_AUDIO_PATHS = FALSE
    /\ LIVE_TRANSCRIPT_TEXTS = <<>>
    /\ WAS_LIVE_RECORDING = FALSE
    /\ tickTask = "none"
    /\ worker = "none"
    /\ workerSeg = None
    /\ workerText = EmptyText
    /\ workerIdx = 0
    /\ emitted = <<>>
    /\ calls = "init"
    /\ returned = None
    /\ transcribed = None
    /\ previous = NoPrevious

(* the AudioBuffer::new() of a build whose capacity is `capacity` *)
AudioBuffer_new == [samples |-> <<>>, base_sample |-> 0]

(* no AudioBuffer call is made *)
RingIdle ==
    /\ overflow_checks = FALSE
    /\ capacity = ScenarioCapacity
    /\ buf = AudioBuffer_new
    /\ pushed = 0
    /\ extracted = None

Streams == {"loopback", "mic"}

(* no capture was started *)
CaptureIdle ==
    /\ stop_flag = FALSE
    /\ loopback_buf = None
    /\ mic_buf = None
    /\ wav = [st \in Streams |-> <<>>]
    /\ captureThread = [st \in Streams |-> "none"]
    /\ stop_flags = <<>>

(* RpcClient::new(): the RpcLock, the statics of discord_rpc/mod.rs, and the
   connection task, which does not exist yet *)
RpcClient_new ==
    [transport |-> "none",
     access_token_override |-> FALSE,
     pc |-> "idle",
     connection_state |-> "Disconnected",
     pending |-> {},
     channel_refresh |-> None,
     current_channel_id |-> None,
     channel_id |-> None,
     CHANNEL_INFO |-> None,
     RPC_CONNECTED |-> FALSE,
     ready_tx |-> "unsent",
     error |-> "",
     last_select |-> "none",
     next_nonce |-> 1,
     awaited |-> 0,
     sent |-> <<>>,
     delivered |-> <<>>,
     stored |-> {},
     fulfilled |-> <<>>]

(* the peer before the transport is opened *)
Peer_new ==
    [ready_sent |-> FALSE, answered |-> {}, subscribed |-> {}, frames |-> 0,
     closed |-> "open", faulty |-> FALSE]

(* no connect was invoked *)
RpcIdle ==
    /\ rpc = RpcClient_new
    /\ inbox = <<>>
    /\ peer = Peer_new
    /\ connectReturned = None

(* the Windows build, the one on which recording works *)
Init ==
    /\ platform = "windows"
    /\ InitState
    /\ RingIdle
    /\ CaptureIdle
    /\ RpcIdle

(* start_recording *)
StartRecording(segment_merge_buffer_ms, live) ==
    /\ calls = "init"
    /\ ACTIVE_SESSION' = Some(NewSession(segment_merge_buffer_ms, live))
    /\ clock' = 0
    /\ IF live
       THEN /\ SEGMENT_FLUSH_TX' = TRUE
            /\ liveQueue' = <<>>
            /\ LIVE_TRANSCRIPT_TEXTS' = <<>>
            /\ tickTask' = "running"
            /\ worker' = "idle"
       ELSE UNCHANGED <<SEGMENT_FLUSH_TX, liveQueue, LIVE_TRANSCRIPT_TEXTS, tickTask, worker>>
    /\ IF start_audio_capture_ok
       THEN /\ AUDIO_HANDLE' = TRUE
            /\ SESSION_AUDIO_PATHS' = TRUE
            /\ WAS_LIVE_RECORDING' = live
            /\ calls' = "started"
       ELSE /\ WAS_LIVE_RECORDING' = (live \/ WAS_LIVE_RECORDING)
            /\ calls' = "start_failed"
            /\ UNCHANGED <<AUDIO_HANDLE, SESSION_AUDIO_PATHS>>
    /\ stop_flags' = IF start_audio_capture_ok THEN Append(stop_flags, FALSE) ELSE stop_flags
    /\ UNCHANGED <<platform, scenario, script, workerSeg, workerText, workerIdx, emitted, returned>>
    /\ UNCHANGED <<transcribed, previous, ringVars, pairVars, rpcVars>>

(* the task that forwards SpeakingEvents calls record_speaking_event *)
RecordSpeakingEvent(ev) ==
    /\ script' = IF scenario = "free" THEN script ELSE Tail(script)
    /\ IF IsSome(ACTIVE_SESSION)
       THEN \E others \in Orders(Others(Unwrap(ACTIVE_SESSION), ev.user_id)) :
              LET rs == record_speaking_event(Rec(Unwrap(ACTIVE_SESSION), liveQueue),
                                              SEGMENT_FLUSH_TX, ev.is_start, ev.user_id, ev.at, others)
              IN /\ Utterances(rs.session) <= MaxSegments
                 /\ ACTIVE_SESSION' = Some(rs.session)
                 /\ liveQueue' = rs.queue
                 /\ clock' = ev.at
       ELSE UNCHANGED <<ACTIVE_SESSION, liveQueue, clock>>
    /\ UNCHANGED <<platform, scenario, SEGMENT_FLUSH_TX, AUDIO_HANDLE, SESSION_AUDIO_PATHS,
                   LIVE_TRANSCRIPT_TEXTS, WAS_LIVE_RECORDING, tickTask, worker, workerSeg,
                   workerText, workerIdx, emitted, calls, returned>>
    /\ UNCHANGED restVars

(* one iteration of the periodic flush task spawned by start_recording *)
FlushTick ==
    /\ tickTask = "running"
    /\ IF ~WAS_LIVE_RECORDING
       THEN /\ tickTask' = "exited"
            /\ UNCHANGED <<ACTIVE_SESSION, liveQueue, clock>>
       ELSE /\ tickTask' = tickTask
            /\ IF IsSome(ACTIVE_SESSION)
               THEN \E elapsed \in ClockReads :
                      \E order \in Orders(ToFlush(Unwrap(ACTIVE_SESSION), elapsed)) :
                        LET rs == flush_pending_if_elapsed(Rec(Unwrap(ACTIVE_SESSION), liveQueue),
                                                           SEGMENT_FLUSH_TX, order)
                        IN /\ ACTIVE_SESSION' = Some(rs.session)
                           /\ liveQueue' = rs.queue
                           /\ clock' = elapsed
               ELSE UNCHANGED <<ACTIVE_SESSION, liveQueue, clock>>
    /\ UNCHANGED <<platform, scenario, script, SEGMENT_FLUSH_TX, AUDIO_HANDLE, SESSION_AUDIO_PATHS,
                   LIVE_TRANSCRIPT_TEXTS, WAS_LIVE_RECORDING, worker, workerSeg, workerText,
                   workerIdx, emitted, calls, returned>>
    /\ UNCHANGED restVars

(* texts.push(String::new()) never executed *)
PadTexts_Never(texts, n) == texts

(* while texts.len() < s.segments.len() { texts.push(String::new()) } *)
PadTexts(texts, n) ==
    IF Len(texts) >= n THEN texts
    ELSE texts \o [i \in 1..(n - Len(texts)) |-> EmptyText]

(* stop_recording *)
StopRecording ==
    /\ calls \in {"started", "start_failed"}
    /\ calls' = "stopped"
    /\ SESSION_AUDIO_PATHS' = FALSE
    /\ AUDIO_HANDLE' = FALSE
    /\ SEGMENT_FLUSH_TX' = FALSE
    /\ WAS_LIVE_RECORDING' = FALSE
    /\ IF SESSION_AUDIO_PATHS /\ IsSome(ACTIVE_SESSION)
       THEN LET session == Unwrap(ACTIVE_SESSION)
            IN \E pendOrder \in Orders(DOMAIN session.pending_cooldown) :
               \E openOrder \in Orders(DOMAIN session.open_segments) :
               \E reads \in ReadSeqs(Cardinality(DOMAIN session.open_segments)) :
                 LET rs == stop_session(Rec(session, liveQueue), FALSE, pendOrder, openOrder, reads)
                     state == SessionState(rs.session)
                 IN /\ ACTIVE_SESSION' = None
                    /\ liveQueue' = rs.queue
                    /\ clock' = IF reads = <<>> THEN clock ELSE reads[Len(reads)]
                    /\ returned' = Some(IF WAS_LIVE_RECORDING
                                        THEN [state EXCEPT !.transcript_texts =
                                                 PadTexts(LIVE_TRANSCRIPT_TEXTS, Len(state.segments))]
                                        ELSE state)
       ELSE /\ returned' = None
            /\ UNCHANGED <<ACTIVE_SESSION, liveQueue, clock>>
    /\ LIVE_TRANSCRIPT_TEXTS' = IF WAS_LIVE_RECORDING THEN <<>> ELSE LIVE_TRANSCRIPT_TEXTS
    /\ previous' = IF WAS_LIVE_RECORDING
                   THEN [previous EXCEPT !.pushed = {},
                                         !.stale = IF IsSome(returned') THEN previous.pushed ELSE {}]
                   ELSE previous
    /\ stop_flags' = IF AUDIO_HANDLE THEN [stop_flags EXCEPT ![Len(stop_flags)] = TRUE]
                     ELSE stop_flags
    /\ UNCHANGED <<platform, scenario, script, tickTask, worker, workerSeg, workerText, workerIdx, emitted>>
    /\ UNCHANGED <<transcribed, ringVars, pairVars, rpcVars>>

(* live worker: rx.recv() yields a segment *)
WorkerRecv ==
    /\ worker = "idle"
    /\ liveQueue # <<>>
    /\ liveQueue' = Tail(liveQueue)
    /\ LET seg == Head(liveQueue)
       IN IF seg.end_ms <= seg.start_ms
          THEN UNCHANGED <<worker, workerSeg>>
          ELSE /\ worker' = "busy"
               /\ workerSeg' = Some(seg)
    /\ UNCHANGED <<platform, scenario, script, clock, ACTIVE_SESSION, SEGMENT_FLUSH_TX, AUDIO_HANDLE,
                   SESSION_AUDIO_PATHS, LIVE_TRANSCRIPT_TEXTS, WAS_LIVE_RECORDING, tickTask,
                   workerText, workerIdx, emitted, calls, returned>>
    /\ UNCHANGED restVars

(* live worker: slice extraction and backend; outcome "skip" is one of the
   continue statements, "empty" a backend that yields no text *)
WorkerTranscribe(outcome) ==
    /\ worker = "busy"
    /\ IF outcome = "skip"
       THEN /\ worker' = "idle"
            /\ workerSeg' = None
            /\ UNCHANGED <<workerText, workerIdx>>
       ELSE /\ worker' = "push"
            /\ workerText' = IF outcome = "text" THEN TextFor(Unwrap(workerSeg)) ELSE EmptyText
            /\ workerIdx' = Len(LIVE_TRANSCRIPT_TEXTS)
            /\ UNCHANGED workerSeg
    /\ UNCHANGED <<platform, scenario, script, clock, ACTIVE_SESSION, SEGMENT_FLUSH_TX, liveQueue,
                   AUDIO_HANDLE, SESSION_AUDIO_PATHS, LIVE_TRANSCRIPT_TEXTS, WAS_LIVE_RECORDING,
                   tickTask, emitted, calls, returned>>
    /\ UNCHANGED restVars

(* live worker: push the text and emit "transcript-segment" *)
WorkerPush ==
    /\ worker = "push"
    /\ LIVE_TRANSCRIPT_TEXTS' = Append(LIVE_TRANSCRIPT_TEXTS, workerText)
    /\ emitted' = Append(emitted, [segment |-> Unwrap(workerSeg), text |-> workerText, index |-> workerIdx])
    /\ worker' = "idle"
    /\ workerSeg' = None
    /\ workerText' = EmptyText
    /\ workerIdx' = 0
    /\ UNCHANGED <<platform, scenario, script, clock, ACTIVE_SESSION, SEGMENT_FLUSH_TX, liveQueue,
                   AUDIO_HANDLE, SESSION_AUDIO_PATHS, WAS_LIVE_RECORDING, tickTask, calls, returned>>
    /\ UNCHANGED restVars

(* a receiver that yields None while the sender is still registered, and
   never after it was dropped *)
WorkerExit_WhileOpen ==
    /\ worker = "idle"
    /\ liveQueue = <<>>
    /\ SEGMENT_FLUSH_TX
    /\ worker' = "exited"
    /\ UNCHANGED <<platform, scenario, script, clock, ACTIVE_SESSION, SEGMENT_FLUSH_TX, liveQueue,
                   AUDIO_HANDLE, SESSION_AUDIO_PATHS, LIVE_TRANSCRIPT_TEXTS, WAS_LIVE_RECORDING,
                   tickTask, workerSeg, workerText, workerIdx, emitted, calls, returned>>
    /\ UNCHANGED restVars

(* live worker: rx.recv() yields None once the sender is dropped *)
WorkerExit ==
    /\ worker = "idle"
    /\ liveQueue = <<>>
    /\ ~SEGMENT_FLUSH_TX
    /\ worker' = "exited"
    /\ UNCHANGED <<platform, scenario, script, clock, ACTIVE_SESSION, SEGMENT_FLUSH_TX, liveQueue,
                   AUDIO_HANDLE, SESSION_AUDIO_PATHS, LIVE_TRANSCRIPT_TEXTS, WAS_LIVE_RECORDING,
                   tickTask, workerSeg, workerText, workerIdx, emitted, calls, returned>>
    /\ UNCHANGED restVars

(* Result<SessionState, String> of transcribe_session_command, with what the
   per-segment loop did: the positions it reached, out of total segments *)
Ok(state, attempted) ==
    [ok |-> TRUE, state |-> Some(state), attempted |-> attempted, total |-> Len(state.segments)]
Err(attempted, total) ==
    [ok |-> FALSE, state |-> None, attempted |-> attempted, total |-> total]

(* what processing one segment of a batch dispatch yields: a text, an empty
   text, a backend failure that comes back as Err(e) in `result` (non-zero
   exit, remote error, missing backend), or a failure on a `?` (the slice
   cannot be extracted, the subprocess cannot be started) *)
DispatchOutcomes == {"text", "empty", "error", "abort"}
ErrorText(seg) == <<"Transcription error", seg.user_id>>

(* the first segment whose processing leaves the command on a `?`, 0 if
   there is none; an empty segment is skipped before anything can fail *)
AbortAt(segments, outcome) ==
    LET aborting == {i \in DOMAIN segments :
                        outcome[i] = "abort" /\ segments[i].end_ms > segments[i].start_ms}
    IN IF aborting = {} THEN 0 ELSE CHOOSE i \in aborting : \A j \in aborting : i <= j

(* the positions the per-segment loop reaches *)
LoopReach(segments, outcome) ==
    IF AbortAt(segments, outcome) = 0 THEN DOMAIN segments
    ELSE 1..AbortAt(segments, outcome)

(* the per-segment loop of transcribe_session_command: texts[i] is written at
   the segment's own index; a texts vector shorter than the segment list is
   an out-of-bounds index, which the model renders as the slots that exist *)
DispatchTexts(segments, texts, outcome) ==
    [i \in DOMAIN texts |->
        IF i \notin DOMAIN segments THEN texts[i]
        ELSE IF segments[i].end_ms <= segments[i].start_ms THEN EmptyText
        ELSE CASE outcome[i] = "text" -> TextFor(segments[i])
               [] outcome[i] = "empty" -> EmptyText
               [] OTHER -> ErrorText(segments[i])]

(* transcribe_session_command; fails is TRUE when one of the early returns
   before the loop is taken (no audio path, no model, no temp directory) *)
transcribe_session_command(state, outcome, fails) ==
    IF fails THEN Err({}, Len(state.segments))
    ELSE IF AbortAt(state.segments, outcome) # 0
    THEN Err(LoopReach(state.segments, outcome), Len(state.segments))
    ELSE Ok([state EXCEPT !.transcript_texts =
                DispatchTexts(state.segments,
                              PadTexts(state.transcript_texts, Len(state.segments)),
                              outcome)],
            LoopReach(state.segments, outcome))

(* states the frontend hands to transcribe_session_command: the state
   stop_recording returned for a batch session (a live session already
   carries its texts) *)
DispatchInputs ==
    IF IsSome(returned) /\ ~Unwrap(returned).live_mode_enabled THEN {Unwrap(returned)} ELSE {}

(* the frontend invokes transcribe_session_command *)
TranscribeSessionCommand(state, outcome, fails) ==
    /\ transcribed' = Some(transcribe_session_command(state, outcome, fails))
    /\ UNCHANGED <<platform, scenario, script, clock, ACTIVE_SESSION, SEGMENT_FLUSH_TX, liveQueue,
                   AUDIO_HANDLE, SESSION_AUDIO_PATHS, LIVE_TRANSCRIPT_TEXTS, WAS_LIVE_RECORDING,
                   tickTask, worker, workerSeg, workerText, workerIdx, emitted, calls, returned>>
    /\ UNCHANGED <<previous, ringVars, captureVars, rpcVars>>

(* what the live worker does with a segment it received: "skip" is one of the
   continue statements, "text" and "empty" a backend that ran, "error" a
   backend that failed (non-zero exit, remote error) *)
Outcomes == {"skip", "empty", "text", "error"}

Next ==
    \/ \E b \in BufferInputs, live \in BOOLEAN : StartRecording(b, live)
    \/ \E ev \in EventInputs : RecordSpeakingEvent(ev)
    \/ FlushTick
    \/ StopRecording
    \/ WorkerRecv
    \/ \E o \in Outcomes : WorkerTranscribe(o)
    \/ WorkerPush
    \/ WorkerExit
    \/ \E state \in DispatchInputs, fails \in BOOLEAN :
          \E outcome \in [DOMAIN state.segments -> DispatchOutcomes] :
            TranscribeSessionCommand(state, outcome, fails)

Spec == Init /\ [][Next]_vars

(* the flush task is a tokio interval: while it runs it keeps being scheduled *)
SpecFair == Spec /\ WF_vars(FlushTick)

(* the live worker is a spawned task: it is scheduled while it can take a
   step, and each backend invocation returns *)
SpecWorkerFair ==
    /\ Spec
    /\ WF_vars(WorkerRecv)
    /\ WF_vars(\E o \in Outcomes : WorkerTranscribe(o))
    /\ WF_vars(WorkerPush)
    /\ WF_vars(WorkerExit)

(* ---------------------------------------------------------------------- *)
(* lib.rs: a session started after another one was stopped                 *)
(* ---------------------------------------------------------------------- *)

(* the live worker task of the session before: it owns its receiver, so a
   live start_recording that replaces the sender leaves it running *)
Lingering ==
    [previous EXCEPT !.pc = IF worker \in {"idle", "busy", "push"} THEN worker ELSE "none",
                     !.seg = workerSeg, !.text = workerText, !.idx = workerIdx,
                     !.queue = liveQueue, !.pushed = {}]

(* start_recording called again: start_session replaces the active session,
   a live call replaces the sender and spawns a new worker, and the new
   handle replaces the one in AUDIO_HANDLE *)
Restart(segment_merge_buffer_ms, live) ==
    /\ previous.restarts < MaxRestarts
    /\ ACTIVE_SESSION' = Some(NewSession(segment_merge_buffer_ms, live))
    /\ clock' = 0
    /\ IF live
       THEN /\ SEGMENT_FLUSH_TX' = TRUE
            /\ liveQueue' = <<>>
            /\ LIVE_TRANSCRIPT_TEXTS' = <<>>
            /\ tickTask' = "running"
            /\ worker' = "idle"
            /\ workerSeg' = None
            /\ workerText' = EmptyText
            /\ workerIdx' = 0
            /\ previous' = [Lingering EXCEPT !.restarts = @ + 1]
       ELSE /\ previous' = [previous EXCEPT !.restarts = @ + 1]
            /\ UNCHANGED <<SEGMENT_FLUSH_TX, liveQueue, LIVE_TRANSCRIPT_TEXTS, tickTask, worker,
                           workerSeg, workerText, workerIdx>>
    /\ IF start_audio_capture_ok
       THEN /\ AUDIO_HANDLE' = TRUE
            /\ SESSION_AUDIO_PATHS' = TRUE
            /\ WAS_LIVE_RECORDING' = live
            /\ calls' = "started"
       ELSE /\ WAS_LIVE_RECORDING' = (live \/ WAS_LIVE_RECORDING)
            /\ calls' = "start_failed"
            /\ UNCHANGED <<AUDIO_HANDLE, SESSION_AUDIO_PATHS>>
    /\ stop_flags' = IF start_audio_capture_ok THEN Append(stop_flags, FALSE) ELSE stop_flags
    /\ UNCHANGED <<platform, scenario, script, emitted, returned>>
    /\ UNCHANGED <<transcribed, ringVars, pairVars, rpcVars>>

(* start_recording called again after stop_recording *)
StartRecordingAgain(segment_merge_buffer_ms, live) ==
    /\ calls = "stopped"
    /\ Restart(segment_merge_buffer_ms, live)

(* start_recording called again with no stop_recording in between *)
StartRecordingOver(segment_merge_buffer_ms, live) ==
    /\ calls \in {"started", "start_failed"}
    /\ Restart(segment_merge_buffer_ms, live)

(* the earlier worker: rx.recv() yields a segment left in its channel *)
PreviousRecv ==
    /\ previous.pc = "idle"
    /\ previous.queue # <<>>
    /\ LET seg == Head(previous.queue)
       IN previous' = IF seg.end_ms <= seg.start_ms
                      THEN [previous EXCEPT !.queue = Tail(@)]
                      ELSE [previous EXCEPT !.queue = Tail(@), !.pc = "busy", !.seg = Some(seg)]
    /\ UNCHANGED <<recordingVars, transcribed, ringVars, captureVars, rpcVars>>

(* the earlier worker: slice extraction and backend *)
PreviousTranscribe(outcome) ==
    /\ previous.pc = "busy"
    /\ previous' = IF outcome = "skip"
                   THEN [previous EXCEPT !.pc = "idle", !.seg = None]
                   ELSE [previous EXCEPT !.pc = "push",
                                         !.text = IF outcome = "text"
                                                  THEN TextFor(Unwrap(previous.seg))
                                                  ELSE EmptyText,
                                         !.idx = Len(LIVE_TRANSCRIPT_TEXTS)]
    /\ UNCHANGED <<recordingVars, transcribed, ringVars, captureVars, rpcVars>>

(* the earlier worker: push the text and emit "transcript-segment" *)
PreviousPush ==
    /\ previous.pc = "push"
    /\ LIVE_TRANSCRIPT_TEXTS' = Append(LIVE_TRANSCRIPT_TEXTS, previous.text)
    /\ emitted' = Append(emitted, [segment |-> Unwrap(previous.seg), text |-> previous.text,
                                   index |-> previous.idx])
    /\ previous' = [previous EXCEPT !.pc = "idle", !.seg = None, !.text = EmptyText, !.idx = 0,
                                    !.pushed = @ \cup {Len(LIVE_TRANSCRIPT_TEXTS) + 1}]
    /\ UNCHANGED <<platform, scenario, script, clock, ACTIVE_SESSION, SEGMENT_FLUSH_TX, liveQueue,
                   AUDIO_HANDLE, SESSION_AUDIO_PATHS, WAS_LIVE_RECORDING, tickTask, worker,
                   workerSeg, workerText, workerIdx, calls, returned>>
    /\ UNCHANGED <<transcribed, ringVars, captureVars, rpcVars>>

(* the earlier worker: its channel is empty and its sender was dropped *)
PreviousExit ==
    /\ previous.pc = "idle"
    /\ previous.queue = <<>>
    /\ previous' = [previous EXCEPT !.pc = "exited"]
    /\ UNCHANGED <<recordingVars, transcribed, ringVars, captureVars, rpcVars>>

NextSessions ==
    \/ Next
    \/ \E b \in BufferInputs, live \in BOOLEAN : StartRecordingAgain(b, live)
    \/ PreviousRecv
    \/ \E o \in Outcomes : PreviousTranscribe(o)
    \/ PreviousPush
    \/ PreviousExit

(* the sessions replay the scripted event sequences: the events a stopped
   session has not consumed arrive in the session that follows it *)
InitSessions ==
    /\ Init
    /\ scenario \in ScenarioNames

SpecSessions == InitSessions /\ [][NextSessions]_vars

(* the same sessions on either build: on a build that is not for Windows
   start_audio_capture returns Err *)
InitBuilds ==
    /\ platform \in {"windows", "other"}
    /\ InitState
    /\ scenario \in ScenarioNames
    /\ RingIdle
    /\ CaptureIdle
    /\ RpcIdle

SpecBuilds == InitBuilds /\ [][NextSessions]_vars

(* the frontend may call start_recording at any time *)
NextOverlap ==
    \/ NextSessions
    \/ \E b \in BufferInputs, live \in BOOLEAN : StartRecordingOver(b, live)

SpecOverlap == InitSessions /\ [][NextOverlap]_vars

(* ---------------------------------------------------------------------- *)
(* audio/buffer.rs                                                         *)
(* ---------------------------------------------------------------------- *)

(* push that never drops the oldest sample *)
push_NoDrop(b, cap, sample) == [b EXCEPT !.samples = Append(@, sample)]

(* push that drops the oldest sample without counting it in base_sample *)
push_NoCount(b, cap, sample) ==
    IF Len(b.samples) >= cap
    THEN [b EXCEPT !.samples = Append(Tail(b.samples), sample)]
    ELSE [b EXCEPT !.samples = Append(@, sample)]

(* AudioBuffer::push with MAX_SAMPLES = cap *)
push(b, cap, sample) ==
    IF Len(b.samples) >= cap
    THEN [samples |-> Append(Tail(b.samples), sample), base_sample |-> b.base_sample + 1]
    ELSE [b EXCEPT !.samples = Append(@, sample)]

(* a - b on u64 without overflow checks *)
wrapping_sub(a, b) == (a - b + WordModulus) % WordModulus

Min(a, b) == IF a <= b THEN a ELSE b

(* what a call of extract yields: a Vec<i16>, or a panic *)
Returns(samples) == [panic |-> FALSE, samples |-> samples]
Panics == [panic |-> TRUE, samples |-> <<>>]

(* AudioBuffer::extract; checks: the build traps integer overflow *)
extract(b, start_ms, end_ms, checks) ==
    LET start_sample == start_ms * SAMPLES_PER_MS
        end_sample == end_ms * SAMPLES_PER_MS
        len == Len(b.samples)
    IN IF start_sample < b.base_sample THEN Returns(<<>>)
       ELSE IF end_sample < b.base_sample /\ checks THEN Panics
       ELSE LET rel_start == start_sample - b.base_sample
                rel_end == wrapping_sub(end_sample, b.base_sample)
                count == saturating_sub(rel_end, rel_start)
            IN IF rel_start >= len \/ count = 0 THEN Returns(<<>>)
               ELSE Returns(SubSeq(b.samples, rel_start + 1, Min(rel_start + count, len)))

(* the builds and capacities the buffer is exercised with *)
InitRing ==
    /\ platform = "windows"
    /\ InitState
    /\ scenario = "free"
    /\ overflow_checks \in BOOLEAN
    /\ capacity \in {ScenarioCapacity, MaxCapacity}
    /\ buf = AudioBuffer_new
    /\ pushed = 0
    /\ extracted = None
    /\ CaptureIdle
    /\ RpcIdle

(* a caller pushes the next sample; the k-th sample pushed has the value k,
   so a sample's value is its absolute index (S5: samples 0..31) *)
Push ==
    /\ pushed < MaxPushed
    /\ buf' = push(buf, capacity, pushed)
    /\ pushed' = pushed + 1
    /\ UNCHANGED <<overflow_checks, capacity, extracted>>
    /\ UNCHANGED <<recordingVars, transcribed, previous, captureVars, rpcVars>>

(* a caller extracts start_ms..end_ms *)
Extract(start_ms, end_ms) ==
    /\ extracted' = Some([start_ms |-> start_ms, end_ms |-> end_ms,
                          result |-> extract(buf, start_ms, end_ms, overflow_checks)])
    /\ UNCHANGED <<overflow_checks, capacity, buf, pushed>>
    /\ UNCHANGED <<recordingVars, transcribed, previous, captureVars, rpcVars>>

NextRing ==
    \/ Push
    \/ \E start_ms, end_ms \in 0..MaxMs : Extract(start_ms, end_ms)

SpecRing == InitRing /\ [][NextRing]_vars

(* ---------------------------------------------------------------------- *)
(* audio/capture.rs and the capture part of start_recording                *)
(* ---------------------------------------------------------------------- *)

(* the ring buffer start_recording made for a stream *)
BufferOf(st) == IF st = "loopback" THEN loopback_buf ELSE mic_buf

InitCapture ==
    /\ platform = "windows"
    /\ InitState
    /\ scenario = "free"
    /\ RingIdle
    /\ CaptureIdle
    /\ RpcIdle

(* start_recording: in live mode two AudioBuffers are made and handed to
   start_audio_capture, which spawns the two capture threads; capture.rs
   keeps only the two paths and the stop flag *)
StartAudioCapture(live) ==
    /\ \A st \in Streams : captureThread[st] = "none"
    /\ loopback_buf' = IF live THEN Some(AudioBuffer_new) ELSE None
    /\ mic_buf' = IF live THEN Some(AudioBuffer_new) ELSE None
    /\ stop_flag' = FALSE
    /\ captureThread' = [st \in Streams |-> "running"]
    /\ UNCHANGED wav
    /\ UNCHANGED <<recordingVars, transcribed, previous, ringVars, rpcVars, stop_flags>>

(* capture_to_wav: one sample read from the device is written to the WAV
   file; the k-th sample of a stream has the value k *)
CaptureSample(st) ==
    /\ captureThread[st] = "running"
    /\ Len(wav[st]) < MaxCaptured
    /\ wav' = [wav EXCEPT ![st] = Append(@, Len(@))]
    /\ UNCHANGED <<stop_flag, loopback_buf, mic_buf, captureThread>>
    /\ UNCHANGED <<recordingVars, transcribed, previous, ringVars, rpcVars, stop_flags>>

(* a capture loop that never reads the stop flag: it ends on an event-wait
   timeout only *)
CaptureFinalize_Deaf(st) ==
    /\ captureThread[st] = "running"
    /\ ~stop_flag
    /\ captureThread' = [captureThread EXCEPT ![st] = "finalized"]
    /\ UNCHANGED <<stop_flag, loopback_buf, mic_buf, wav>>
    /\ UNCHANGED <<recordingVars, transcribed, previous, ringVars, rpcVars, stop_flags>>

(* capture_to_wav: the loop sees the stop flag (or the event wait times out),
   the stream is stopped and the writer finalized *)
CaptureFinalize(st) ==
    /\ captureThread[st] = "running"
    /\ captureThread' = [captureThread EXCEPT ![st] = "finalized"]
    /\ UNCHANGED <<stop_flag, loopback_buf, mic_buf, wav>>
    /\ UNCHANGED <<recordingVars, transcribed, previous, ringVars, rpcVars, stop_flags>>

(* capture_to_wav: a device or writer call fails and `?` leaves the thread *)
CaptureFail(st) ==
    /\ captureThread[st] = "running"
    /\ captureThread' = [captureThread EXCEPT ![st] = "failed"]
    /\ UNCHANGED <<stop_flag, loopback_buf, mic_buf, wav>>
    /\ UNCHANGED <<recordingVars, transcribed, previous, ringVars, rpcVars, stop_flags>>

(* stop_audio_capture *)
StopAudioCapture ==
    /\ \E st \in Streams : captureThread[st] # "none"
    /\ ~stop_flag
    /\ stop_flag' = TRUE
    /\ UNCHANGED <<loopback_buf, mic_buf, wav, captureThread>>
    /\ UNCHANGED <<recordingVars, transcribed, previous, ringVars, rpcVars, stop_flags>>

NextCapture ==
    \/ \E live \in BOOLEAN : StartAudioCapture(live)
    \/ \E st \in Streams : CaptureSample(st)
    \/ \E st \in Streams : CaptureFinalize(st)
    \/ \E st \in Streams : CaptureFail(st)
    \/ StopAudioCapture

SpecCapture == InitCapture /\ [][NextCapture]_vars

(* a capture thread sees the stop flag at the top of its loop *)
SeesStop(st) == stop_flag /\ CaptureFinalize(st)

(* one pass of the capture loop is bounded: the device read does not block
   and the event wait returns within 1000 ms, so a running thread keeps
   re-reading the stop flag *)
SpecCaptureFair == SpecCapture /\ \A st \in Streams : WF_vars(SeesStop(st))

(* ---------------------------------------------------------------------- *)
(* discord_rpc/ipc.rs, discord_rpc/client.rs                               *)
(* ---------------------------------------------------------------------- *)

(* opcodes of ipc.rs; on the WebSocket transport OPCODE_FRAME stands for
   Message::Text, OPCODE_CLOSE for Message::Close and OPCODE_PING for Message::Ping *)
OPCODE_FRAME == 1
OPCODE_CLOSE == 2
OPCODE_PING == 3
OPCODE_PONG == 4

(* voice channels, and the payloads a PING may carry *)
Channels == {"C1", "C2"}
PingPayloads == {"p", "q"}

(* what the peer does on its own, beyond READY and the responses to requests:
   frames sent plus the closing of the transport *)
MaxPeerFrames == 2

(* a frame read by the client: an RpcPayload (evt, nonce, data) or the payload
   of a PING; nonce 0 and the empty string stand for an absent field, present
   for data being Some *)
Blank ==
    [op |-> OPCODE_FRAME, evt |-> "", nonce |-> 0, present |-> FALSE, id |-> "",
     channel_id |-> "", user_id |-> "", guild_id |-> FALSE, code |-> FALSE, text |-> ""]

EventFrame(evt) == [Blank EXCEPT !.evt = evt, !.present = TRUE]
ReadyFrame == EventFrame("READY")
ErrorFrame == EventFrame("ERROR")
SelectFrame(channel_id) == [EventFrame("VOICE_CHANNEL_SELECT") EXCEPT !.channel_id = channel_id]
SpeakingFrame(evt, user_id) == [EventFrame(evt) EXCEPT !.user_id = user_id]
PingFrame(text) == [Blank EXCEPT !.op = OPCODE_PING, !.text = text]
CloseFrame == [Blank EXCEPT !.op = OPCODE_CLOSE]

(* a frame written by the client: a command, or a PONG *)
Command(cmd, evt, nonce, channel) ==
    [op |-> OPCODE_FRAME, cmd |-> cmd, evt |-> evt, nonce |-> nonce, channel |-> channel, text |-> ""]
Pong(text) ==
    [op |-> OPCODE_PONG, cmd |-> "", evt |-> "", nonce |-> 0, channel |-> "", text |-> text]

(* the text of an Option<String> channel id, empty for None *)
IdText(opt) == IF IsSome(opt) THEN Unwrap(opt) ELSE ""

(* ipc.send_json(cmd) with a fresh Uuid nonce *)
SendCommand(c, cmd, evt, channel) ==
    [c EXCEPT !.sent = Append(@, Command(cmd, evt, c.next_nonce, channel)),
              !.next_nonce = @ + 1]

(* send_json followed by ipc_read_response(nonce): the task waits at pc *)
Call(c, cmd, evt, channel, pc) ==
    [SendCommand(c, cmd, evt, channel) EXCEPT !.awaited = c.next_nonce, !.pc = pc]

(* send_pong *)
SendPong(c, text) == [c EXCEPT !.sent = Append(@, Pong(text))]

(* the messages of the errors the connection task reports *)
NotInVoice == "Not in a voice channel"
NoCode == "No authorization code"
TokenFailed == "Token exchange failed"
ClosedByDiscord == "Connection closed by Discord"
ClosedBeforeReady == "Connection closed before READY"
ErrorEvent == "ERROR event"
ReadFailed == "read error"

(* the send_err closure: the first error goes to connect() through ready_tx *)
send_err(c, e) ==
    IF c.ready_tx = "unsent" THEN [c EXCEPT !.ready_tx = "err", !.error = e] ELSE c

(* the connection task returns: Err makes the spawn wrapper of connect() store
   RpcConnectionState::Error; a ready_tx never used is dropped *)
Return(c, ok) ==
    [c EXCEPT !.pc = "done",
              !.connection_state = IF ok THEN @ ELSE "Error",
              !.ready_tx = IF @ = "unsent" THEN "dropped" ELSE @]

(* return Err(send_err(e)) *)
Fail(c, e) == Return(send_err(c, e), FALSE)

(* AUTHENTICATE with the access token *)
Authenticate(c) == Call(c, "AUTHENTICATE", "", "", "AUTHENTICATE")

(* after READY: AwaitingAuth, then AUTHORIZE, or AUTHENTICATE at once with a
   pre-obtained access token *)
AfterReady(c) ==
    LET a == [c EXCEPT !.connection_state = "AwaitingAuth"]
    IN IF a.access_token_override THEN Authenticate(a)
       ELSE Call(a, "AUTHORIZE", "", "", "AUTHORIZE")

(* if let Some(tx) = ready_tx.take() { tx.send(Ok(refresh_token)) } *)
SignalReady(c) == IF c.ready_tx = "unsent" THEN [c EXCEPT !.ready_tx = "ok"] ELSE c

(* set_channel_info, current_channel_id, the ready signal, then SUBSCRIBE
   VOICE_CHANNEL_SELECT *)
Publish(c) ==
    LET a == [c EXCEPT !.CHANNEL_INFO = c.channel_id, !.current_channel_id = c.channel_id]
    IN Call(SignalReady(a), "SUBSCRIBE", "VOICE_CHANNEL_SELECT", "", "SUBSCRIBE_SELECT")

(* channel_response.get("id") of a GET_SELECTED_VOICE_CHANNEL response taken
   as present whatever the response holds *)
HasChannel_Always(f) == TRUE

(* channel_response.get("id").and_then(|v| v.as_str()) is Some *)
HasChannel(f) == f.present /\ f.id # ""

(* ipc_read_response returned Ok(data) to the step the task waits in;
   token_ok: the HTTP token exchange after AUTHORIZE succeeds *)
OnResponse(c, f, token_ok) ==
    CASE c.pc = "AUTHORIZE" ->
           IF ~(f.present /\ f.code) THEN Fail(c, NoCode)
           ELSE IF ~token_ok THEN Fail(c, TokenFailed)
           ELSE Authenticate(c)
      [] c.pc = "AUTHENTICATE" ->
           Call([c EXCEPT !.connection_state = "Authenticated"],
                "GET_SELECTED_VOICE_CHANNEL", "", "", "GET_SELECTED_VOICE_CHANNEL")
      [] c.pc = "GET_SELECTED_VOICE_CHANNEL" ->
           IF ~HasChannel(f) THEN Fail(c, NotInVoice)
           ELSE LET a == [c EXCEPT !.channel_id = Some(f.id)]
                IN IF f.guild_id THEN Call(a, "GET_GUILD", "", "", "GET_GUILD") ELSE Publish(a)
      [] c.pc = "GET_GUILD" -> Publish(c)
      [] c.pc = "SUBSCRIBE_SELECT" ->
           Call(c, "SUBSCRIBE", "SPEAKING_START", IdText(c.channel_id), "SUBSCRIBE_START")
      [] c.pc = "SUBSCRIBE_START" ->
           Call(c, "SUBSCRIBE", "SPEAKING_STOP", IdText(c.channel_id), "SUBSCRIBE_STOP")
      [] c.pc = "SUBSCRIBE_STOP" ->
           [c EXCEPT !.connection_state = "Subscribed", !.RPC_CONNECTED = TRUE, !.pc = "LOOP"]
      [] c.pc = "REFRESH_START" ->
           Call(c, "SUBSCRIBE", "SPEAKING_STOP", IdText(c.channel_id), "REFRESH_STOP")
      [] c.pc = "REFRESH_STOP" -> [c EXCEPT !.pc = "LOOP"]

(* ipc_read_response returned Err: GET_GUILD swallows it with .ok(), the
   steps before the ready signal report it through send_err, the SUBSCRIBE
   steps leave with `?` *)
OnResponseErr(c, e) ==
    IF c.pc = "GET_GUILD" THEN Publish(c)
    ELSE IF c.pc \in {"AUTHORIZE", "AUTHENTICATE", "GET_SELECTED_VOICE_CHANNEL"} THEN Fail(c, e)
    ELSE Return(c, FALSE)

(* one frame read inside ipc_read_response *)
ipc_read_response(c, f, token_ok) ==
    IF f.op = OPCODE_FRAME
    THEN IF f.evt = "ERROR" THEN OnResponseErr(c, ErrorEvent)
         ELSE IF f.nonce = c.awaited THEN OnResponse(c, f, token_ok)
         ELSE c
    ELSE IF f.op = OPCODE_CLOSE THEN OnResponseErr(c, ClosedByDiscord)
    ELSE IF f.op = OPCODE_PING THEN SendPong(c, f.text)
    ELSE c

(* one frame read in the READY wait of run_connection_ipc *)
ipc_ready_wait(c, f) ==
    IF f.op = OPCODE_FRAME
    THEN IF f.evt = "READY" THEN AfterReady(c)
         ELSE IF f.evt = "ERROR" THEN Fail(c, ErrorEvent)
         ELSE c
    ELSE IF f.op = OPCODE_PING THEN SendPong(c, f.text)
    ELSE IF f.op = OPCODE_CLOSE THEN Fail(c, ClosedByDiscord)
    ELSE c

(* SpeakingEvent::Start { user_id } / SpeakingEvent::Stop { user_id } *)
SpeakingEvent(evt, user_id) == [kind |-> evt, user_id |-> user_id]

(* a channel switch that never unsubscribes the old channel *)
Unsubscribe_Never(c, old_ch_id) == c

(* if let Some(old_id) = old_ch_id { UNSUBSCRIBE SPEAKING_START, SPEAKING_STOP } *)
Unsubscribe(c, old_ch_id) ==
    IF IsSome(old_ch_id)
    THEN SendCommand(SendCommand(c, "UNSUBSCRIBE", "SPEAKING_START", Unwrap(old_ch_id)),
                     "UNSUBSCRIBE", "SPEAKING_STOP", Unwrap(old_ch_id))
    ELSE c

(* the event loop reads the frame whose nonce is in the channel_refresh slot:
   the slot is taken, and a response with an id publishes the new channel,
   unsubscribes the old one and subscribes the new one *)
Refresh(c, f) ==
    LET slot == Unwrap(c.channel_refresh)
        taken == [c EXCEPT !.channel_refresh = None, !.fulfilled = Append(@, f.nonce)]
    IN IF f.present /\ f.id # ""
       THEN LET a == [taken EXCEPT !.CHANNEL_INFO = Some(f.id),
                                   !.current_channel_id = Some(f.id),
                                   !.channel_id = Some(f.id)]
            IN Call(Unsubscribe(a, slot.old_ch_id), "SUBSCRIBE", "SPEAKING_START", f.id,
                    "REFRESH_START")
       ELSE taken

(* state.pending.remove(nonce): the oneshot is completed when data is Some *)
PendingRemove(c, f) ==
    IF f.nonce \in c.pending
    THEN [c EXCEPT !.pending = @ \ {f.nonce},
                   !.fulfilled = IF f.present THEN Append(@, f.nonce) ELSE @]
    ELSE c

(* the VOICE_CHANNEL_SELECT branch; last_select records which kind of
   select the loop handled last: "null" or "channel" *)
VoiceChannelSelect(c, f) ==
    IF ~f.present \/ f.channel_id = ""
    THEN [c EXCEPT !.CHANNEL_INFO = None, !.current_channel_id = None, !.last_select = "null"]
    ELSE SendCommand([c EXCEPT !.channel_refresh =
                                   Some([nonce |-> c.next_nonce, old_ch_id |-> c.current_channel_id]),
                               !.stored = @ \cup {c.next_nonce},
                               !.last_select = "channel"],
                     "GET_CHANNEL", "", f.channel_id)

(* the SPEAKING_START / SPEAKING_STOP branch: tx.send(event) *)
Speaking(c, f) ==
    IF f.present /\ f.user_id # ""
    THEN [c EXCEPT !.delivered = Append(@, SpeakingEvent(f.evt, f.user_id))]
    ELSE c

(* the ERROR branch of the event loop *)
LoopError(c) == Return([c EXCEPT !.connection_state = "Error", !.RPC_CONNECTED = FALSE], FALSE)

(* break out of the event loop: set_rpc_connected(false); Ok(()) *)
Break(c) == Return([c EXCEPT !.RPC_CONNECTED = FALSE], TRUE)

(* one frame read in the event loop of run_connection_ipc *)
ipc_event_loop(c, f) ==
    IF f.op = OPCODE_FRAME
    THEN IF f.nonce # 0 /\ IsSome(c.channel_refresh) /\ Unwrap(c.channel_refresh).nonce = f.nonce
         THEN Refresh(c, f)
         ELSE LET a == IF f.nonce # 0 THEN PendingRemove(c, f) ELSE c
              IN IF f.evt = "VOICE_CHANNEL_SELECT" THEN VoiceChannelSelect(a, f)
                 ELSE IF f.evt \in {"SPEAKING_START", "SPEAKING_STOP"} THEN Speaking(a, f)
                 ELSE IF f.evt = "ERROR" THEN LoopError(a)
                 ELSE a
    ELSE IF f.op = OPCODE_CLOSE THEN Break(c)
    ELSE c

(* run_connection after READY: the oneshot sender of the first request is
   stored in `pending`, the request is written, and the task awaits the
   receiver. Only the message loop at the end of this same function completes
   a stored oneshot, and nothing else reads the socket, so the task stays at
   "WS_AWAIT" *)
WsAfterReady(c) ==
    LET a == [c EXCEPT !.connection_state = "AwaitingAuth",
                       !.pending = @ \cup {c.next_nonce},
                       !.stored = @ \cup {c.next_nonce},
                       !.awaited = c.next_nonce,
                       !.pc = "WS_AWAIT"]
    IN SendCommand(a, IF c.access_token_override THEN "AUTHENTICATE" ELSE "AUTHORIZE", "", "")

(* one message read in the READY wait of run_connection *)
ws_ready_wait(c, f) ==
    IF f.op = OPCODE_FRAME
    THEN IF f.evt = "READY" THEN WsAfterReady(c)
         ELSE IF f.evt = "ERROR" THEN Fail(c, ErrorEvent)
         ELSE c
    ELSE IF f.op = OPCODE_CLOSE THEN Fail(c, ClosedByDiscord)
    ELSE c

(* the steps in which the task waits inside ipc_read_response *)
ResponseSteps ==
    {"AUTHORIZE", "AUTHENTICATE", "GET_SELECTED_VOICE_CHANNEL", "GET_GUILD",
     "SUBSCRIBE_SELECT", "SUBSCRIBE_START", "SUBSCRIBE_STOP", "REFRESH_START", "REFRESH_STOP"}

(* the connection task of a client that called connect *)
Running == rpc.pc \notin {"idle", "done"}

(* the RPC connection alone *)
InitRpc ==
    /\ platform = "windows"
    /\ InitState
    /\ scenario = "free"
    /\ RingIdle
    /\ CaptureIdle
    /\ RpcIdle

(* connect (override FALSE) or connect_with_refresh_token after the token
   refresh (override TRUE): the named pipe is tried first and the WebSocket
   ports after it; with no transport the call fails at once *)
Connect(transport, override) ==
    /\ rpc.pc = "idle"
    /\ IF transport = "none"
       THEN /\ rpc' = [rpc EXCEPT !.connection_state = "Error", !.pc = "done",
                                  !.ready_tx = "dropped"]
            /\ connectReturned' = Some("Err")
       ELSE /\ rpc' = [rpc EXCEPT !.transport = transport,
                                  !.access_token_override = override,
                                  !.connection_state = "Connecting",
                                  !.pc = "READY"]
            /\ UNCHANGED connectReturned
    /\ UNCHANGED <<inbox, peer>>
    /\ UNCHANGED <<recordingVars, transcribed, previous, ringVars, captureVars>>

(* recv_frame / read.next(): the next frame, or the end of the stream *)
AtEnd(kind) == inbox = <<>> /\ peer.closed = kind

(* the READY wait of run_connection_ipc *)
IpcReadyWait ==
    /\ rpc.transport = "ipc" /\ rpc.pc = "READY"
    /\ \/ inbox # <<>> /\ rpc' = ipc_ready_wait(rpc, Head(inbox)) /\ inbox' = Tail(inbox)
       \/ AtEnd("eof") /\ rpc' = Fail(rpc, ClosedBeforeReady) /\ UNCHANGED inbox
       \/ AtEnd("error") /\ rpc' = Return(rpc, FALSE) /\ UNCHANGED inbox
    /\ UNCHANGED <<peer, connectReturned>>
    /\ UNCHANGED <<recordingVars, transcribed, previous, ringVars, captureVars>>

(* the token exchange can fail only where it is made: after the AUTHORIZE
   response *)
TokenOutcomes(c, f) ==
    IF c.pc = "AUTHORIZE" /\ f.op = OPCODE_FRAME /\ f.evt # "ERROR" /\ f.nonce = c.awaited
       /\ f.present /\ f.code
    THEN BOOLEAN ELSE {TRUE}

(* ipc_read_response, wherever the task waits in it; at the end of the stream
   recv_frame yields None and the loop spins without a step, a read error
   leaves with Err *)
IpcReadResponse ==
    /\ rpc.transport = "ipc" /\ rpc.pc \in ResponseSteps
    /\ \/ /\ inbox # <<>>
          /\ \E token_ok \in TokenOutcomes(rpc, Head(inbox)) :
                /\ rpc' = ipc_read_response(rpc, Head(inbox), token_ok)
                /\ peer' = [peer EXCEPT !.faulty = @ \/ ~token_ok]
          /\ inbox' = Tail(inbox)
       \/ AtEnd("error") /\ rpc' = OnResponseErr(rpc, ReadFailed) /\ UNCHANGED <<inbox, peer>>
    /\ UNCHANGED connectReturned
    /\ UNCHANGED <<recordingVars, transcribed, previous, ringVars, captureVars>>

(* the event loop of run_connection_ipc *)
IpcEventLoop ==
    /\ rpc.transport = "ipc" /\ rpc.pc = "LOOP"
    /\ \/ inbox # <<>> /\ rpc' = ipc_event_loop(rpc, Head(inbox)) /\ inbox' = Tail(inbox)
       \/ AtEnd("eof") /\ rpc' = Break(rpc) /\ UNCHANGED inbox
       \/ AtEnd("error") /\ rpc' = Return(rpc, FALSE) /\ UNCHANGED inbox
    /\ UNCHANGED <<peer, connectReturned>>
    /\ UNCHANGED <<recordingVars, transcribed, previous, ringVars, captureVars>>

(* the READY wait of run_connection *)
WsReadyWait ==
    /\ rpc.transport = "ws" /\ rpc.pc = "READY"
    /\ \/ inbox # <<>> /\ rpc' = ws_ready_wait(rpc, Head(inbox)) /\ inbox' = Tail(inbox)
       \/ AtEnd("eof") /\ rpc' = Fail(rpc, ClosedBeforeReady) /\ UNCHANGED inbox
       \/ AtEnd("error") /\ rpc' = Return(rpc, FALSE) /\ UNCHANGED inbox
    /\ UNCHANGED <<peer, connectReturned>>
    /\ UNCHANGED <<recordingVars, transcribed, previous, ringVars, captureVars>>

(* connect() returns what arrives on ready_rx *)
ConnectReturns ==
    /\ rpc.pc # "idle"
    /\ connectReturned = None
    /\ rpc.ready_tx # "unsent"
    /\ connectReturned' = Some(IF rpc.ready_tx = "ok" THEN "Ok" ELSE "Err")
    /\ UNCHANGED <<rpc, inbox, peer>>
    /\ UNCHANGED <<recordingVars, transcribed, previous, ringVars, captureVars>>

(* the peer while the transport is open *)
PeerOpen == rpc.pc # "idle" /\ rpc.transport # "none" /\ peer.closed = "open"

(* Discord sends READY after the handshake *)
PeerReady ==
    /\ PeerOpen /\ ~peer.ready_sent
    /\ inbox' = Append(inbox, ReadyFrame)
    /\ peer' = [peer EXCEPT !.ready_sent = TRUE]
    /\ UNCHANGED <<rpc, connectReturned>>
    /\ UNCHANGED <<recordingVars, transcribed, previous, ringVars, captureVars>>

(* commands the client wrote that the peer has not answered *)
Unanswered ==
    {rpc.sent[i] : i \in {j \in DOMAIN rpc.sent :
                            rpc.sent[j].op = OPCODE_FRAME /\ rpc.sent[j].nonce \notin peer.answered}}

(* the responses Discord may give to a command: the nonce of the command,
   and data that has or lacks the field the client reads *)
Responses(r) ==
    LET resp == [Blank EXCEPT !.nonce = r.nonce, !.present = TRUE]
    IN CASE r.cmd = "AUTHORIZE" -> {[resp EXCEPT !.code = b] : b \in BOOLEAN}
         [] r.cmd = "GET_SELECTED_VOICE_CHANNEL" ->
              {[resp EXCEPT !.id = "C1", !.guild_id = g] : g \in BOOLEAN}
                \cup {[resp EXCEPT !.present = FALSE]}
         [] r.cmd = "GET_CHANNEL" -> {[resp EXCEPT !.id = r.channel], [resp EXCEPT !.present = FALSE]}
         [] OTHER -> {resp}

(* a response that does not let the handshake go on *)
Refusal(r, f) ==
    \/ r.cmd = "AUTHORIZE" /\ ~f.code
    \/ r.cmd = "GET_SELECTED_VOICE_CHANNEL" /\ ~f.present

(* the subscriptions Discord holds after it has processed a command *)
Subscriptions(r) ==
    IF r.cmd = "SUBSCRIBE" THEN peer.subscribed \cup {<<r.evt, r.channel>>}
    ELSE IF r.cmd = "UNSUBSCRIBE" THEN peer.subscribed \ {<<r.evt, r.channel>>}
    ELSE peer.subscribed

(* Discord answers a command with a frame carrying the command's nonce *)
PeerAnswer(r, f) ==
    /\ PeerOpen /\ peer.ready_sent
    /\ inbox' = Append(inbox, f)
    /\ peer' = [peer EXCEPT !.answered = @ \cup {r.nonce},
                            !.subscribed = Subscriptions(r),
                            !.faulty = @ \/ Refusal(r, f)]
    /\ UNCHANGED <<rpc, connectReturned>>
    /\ UNCHANGED <<recordingVars, transcribed, previous, ringVars, captureVars>>

(* a frame Discord sends on its own *)
PeerSends(f, faulty) ==
    /\ PeerOpen
    /\ peer.frames < MaxPeerFrames
    /\ inbox' = Append(inbox, f)
    /\ peer' = [peer EXCEPT !.frames = @ + 1, !.faulty = @ \/ faulty]
    /\ UNCHANGED <<rpc, connectReturned>>
    /\ UNCHANGED <<recordingVars, transcribed, previous, ringVars, captureVars>>

PeerPing(text) == PeerSends(PingFrame(text), FALSE)

PeerError == peer.ready_sent /\ PeerSends(ErrorFrame, TRUE)

(* the user moves to a voice channel, or leaves voice *)
PeerSelect(channel_id) ==
    /\ <<"VOICE_CHANNEL_SELECT", "">> \in peer.subscribed
    /\ PeerSends(SelectFrame(channel_id), FALSE)

(* somebody starts or stops speaking in a subscribed channel; a frame may
   lack the user_id *)
PeerSpeaking(evt, user_id) ==
    /\ \E ch \in Channels : <<evt, ch>> \in peer.subscribed
    /\ PeerSends(SpeakingFrame(evt, user_id), FALSE)

(* Discord closes: with a CLOSE frame, by ending the stream, or so that the
   client's next read fails *)
PeerClose(kind) ==
    /\ PeerOpen
    /\ peer.frames < MaxPeerFrames
    /\ inbox' = IF kind = "frame" THEN Append(inbox, CloseFrame) ELSE inbox
    /\ peer' = [peer EXCEPT !.closed = IF kind = "frame" THEN "eof" ELSE kind,
                            !.frames = @ + 1, !.faulty = TRUE]
    /\ UNCHANGED <<rpc, connectReturned>>
    /\ UNCHANGED <<recordingVars, transcribed, previous, ringVars, captureVars>>

ClientStep == IpcReadyWait \/ IpcReadResponse \/ IpcEventLoop \/ WsReadyWait

PeerAnswers == \E r \in Unanswered : \E f \in Responses(r) : PeerAnswer(r, f)

NextRpc ==
    \/ \E transport \in {"ipc", "ws", "none"}, override \in BOOLEAN : Connect(transport, override)
    \/ IpcReadyWait
    \/ IpcReadResponse
    \/ IpcEventLoop
    \/ WsReadyWait
    \/ ConnectReturns
    \/ PeerReady
    \/ PeerAnswers
    \/ \E text \in PingPayloads : PeerPing(text)
    \/ PeerError
    \/ \E channel_id \in Channels \cup {""} : PeerSelect(channel_id)
    \/ \E evt \in {"SPEAKING_START", "SPEAKING_STOP"}, user_id \in {"A", ""} : PeerSpeaking(evt, user_id)
    \/ \E kind \in {"frame", "eof", "error"} : PeerClose(kind)

SpecRpc == InitRpc /\ [][NextRpc]_vars

(* the connection task is a spawned tokio task and connect() an awaited
   future: both keep being scheduled; Discord sends READY and answers the
   commands it receives *)
SpecRpcFair ==
    SpecRpc /\ WF_vars(ClientStep) /\ WF_vars(ConnectReturns) /\ WF_vars(PeerReady)
            /\ WF_vars(PeerAnswers)

(* ---------------------------------------------------------------------- *)
(* Observations used by the properties                                     *)
(* ---------------------------------------------------------------------- *)

Active == IsSome(ACTIVE_SESSION)
Session == Unwrap(ACTIVE_SESSION)

(* the session's segment list: of the active session, or as returned *)
SegmentList ==
    IF Active THEN Session.segments
    ELSE IF IsSome(returned) THEN Unwrap(returned).segments ELSE <<>>

(* [a.start_ms, a.end_ms) and [b.start_ms, b.end_ms) have no point in common *)
Disjoint(a, b) ==
    LET lo == IF a.start_ms >= b.start_ms THEN a.start_ms ELSE b.start_ms
        hi == IF a.end_ms <= b.end_ms THEN a.end_ms ELSE b.end_ms
    IN ~(lo < hi)

(* the scenario has been replayed to its end and the recording stopped *)
Replayed(name) == scenario = name /\ script = <<>> /\ calls = "stopped" /\ IsSome(returned)

(* C1: every segment of the session's segment list has start_ms < end_ms,
   for every non-decreasing assignment of clock values to the events. *)
C1_StartBeforeEnd ==
    \A i \in DOMAIN SegmentList : SegmentList[i].start_ms < SegmentList[i].end_ms

(* C2: for each user the finalized segments of that user are pairwise
   disjoint as [start_ms, end_ms) ranges and appear in the list in
   non-decreasing start_ms order. *)
C2_PerUserDisjointOrdered ==
    \A i, j \in DOMAIN SegmentList :
        (i < j /\ SegmentList[i].user_id = SegmentList[j].user_id)
            => /\ SegmentList[i].start_ms <= SegmentList[j].start_ms
               /\ Disjoint(SegmentList[i], SegmentList[j])

(* two non-empty segments of one user are in the list *)
C2_Witness ==
    \E i, j \in DOMAIN SegmentList :
        /\ i < j
        /\ SegmentList[i].user_id = SegmentList[j].user_id
        /\ SegmentList[i].start_ms < SegmentList[i].end_ms
        /\ SegmentList[j].start_ms < SegmentList[j].end_ms

(* a START of ev.user_id is recorded in this step while the session is active *)
StartStep(ev) == Active /\ ev.is_start /\ RecordSpeakingEvent(ev)

(* a STOP of ev.user_id is recorded in this step while the session is active *)
StopStep(ev) == Active /\ ~ev.is_start /\ RecordSpeakingEvent(ev)

(* the segments of user u in list l, in list order *)
SegmentsOf(l, u) == SelectSeq(l, LAMBDA seg : seg.user_id = u)

(* what the next state's session holds *)
SessionNext == Unwrap(ACTIVE_SESSION')

(* the merge-buffer law on one START of a pending user *)
MergeLawStep ==
    \A ev \in EventInputs :
        (StartStep(ev) /\ ev.user_id \in DOMAIN Session.pending_cooldown) =>
            LET u == ev.user_id
                p == Session.pending_cooldown[u]
            IN /\ u \notin DOMAIN SessionNext.pending_cooldown
               /\ u \in DOMAIN SessionNext.open_segments
               /\ IF ev.at - p.stop_ms <= Session.segment_merge_buffer_ms
                  THEN /\ SessionNext.open_segments[u] = p.start_ms
                       /\ SegmentsOf(SessionNext.segments, u) = SegmentsOf(Session.segments, u)
                  ELSE /\ SessionNext.open_segments[u] = ev.at
                       /\ SegmentsOf(SessionNext.segments, u)
                            = Append(SegmentsOf(Session.segments, u),
                                     SessionSegment(p.start_ms, p.stop_ms, u))

(* C3: merge-buffer law.  A START of user u that finds u pending with
   stop_ms = t1 at clock t2 continues the utterance (one segment, from the
   first START) if t2 - t1 <= merge_buffer_ms, and otherwise finalizes
   (start_ms, t1) and opens a new utterance at t2; S1 yields [(0,2000,A)]
   and S2 yields [(0,500,A),(2000,3000,A)]. *)
C3_MergeBufferLaw ==
    /\ [][MergeLawStep]_vars
    /\ [](Replayed("S1") => Unwrap(returned).segments = <<SessionSegment(0, 2000, "A")>>)
    /\ [](Replayed("S2") => Unwrap(returned).segments
                                = <<SessionSegment(0, 500, "A"), SessionSegment(2000, 3000, "A")>>)

(* S1 was replayed to its end and the session stopped: the merge happened *)
C3_Witness == Replayed("S1") /\ Len(Unwrap(returned).segments) = 1

(* user a's pending entry is finalized in this step as (start_ms, stop_ms) *)
FinalizedFromPending(a) ==
    LET p == Session.pending_cooldown[a]
    IN /\ a \notin DOMAIN SessionNext.pending_cooldown
       /\ SegmentsOf(SessionNext.segments, a)
            = Append(SegmentsOf(Session.segments, a), SessionSegment(p.start_ms, p.stop_ms, a))

(* START(b) while another user a is pending: a is finalized and b is open
   with start_ms = now *)
SwitchOpensAtNowStep ==
    \A ev \in EventInputs : \A a \in Users :
        (StartStep(ev) /\ a # ev.user_id /\ a \in DOMAIN Session.pending_cooldown) =>
            /\ FinalizedFromPending(a)
            /\ ev.user_id \in DOMAIN SessionNext.open_segments
            /\ SessionNext.open_segments[ev.user_id] = ev.at

(* C4 as stated: at START(B) while A is pending, A is finalized as
   (A.start_ms, A.stop_ms) whatever the gap, A leaves pending, and B becomes
   open with start_ms = now. *)
C4_SwitchOpensAtNow == [][SwitchOpensAtNowStep]_vars

(* start_ms user b is open with after START(b) at clock value now *)
OpenStartAfter(b, now) ==
    IF b \in DOMAIN Session.pending_cooldown
    THEN IF now - Session.pending_cooldown[b].stop_ms <= Session.segment_merge_buffer_ms
         THEN Session.pending_cooldown[b].start_ms ELSE now
    ELSE IF b \in DOMAIN Session.open_segments THEN Session.open_segments[b] ELSE now

SwitchStep ==
    \A ev \in EventInputs : \A a \in Users :
        (StartStep(ev) /\ a # ev.user_id /\ a \in DOMAIN Session.pending_cooldown) =>
            /\ FinalizedFromPending(a)
            /\ ev.user_id \in DOMAIN SessionNext.open_segments
            /\ SessionNext.open_segments[ev.user_id] = OpenStartAfter(ev.user_id, ev.at)

(* C4 amended: at START(B) while A is pending, A is finalized as
   (A.start_ms, A.stop_ms) whatever the gap and leaves pending; B is open
   afterwards, with start_ms = now when B was neither open nor pending (or
   pending beyond the merge buffer), with its pending start_ms when B was
   pending within the merge buffer, and with its old start_ms when B was
   already open.  In S4 A is flushed as (0,100,A) at START(B)@300 and B is
   open at 300. *)
C4_SpeakerSwitch ==
    /\ [][SwitchStep]_vars
    /\ []((scenario = "S4" /\ script = <<>> /\ Active) =>
            /\ Session.segments = <<SessionSegment(0, 100, "A")>>
            /\ Session.pending_cooldown = EmptyMap
            /\ DOMAIN Session.open_segments = {"B"}
            /\ Session.open_segments["B"] = 300)

(* S4 replayed: A flushed by START(B), B open *)
C4_Witness ==
    /\ scenario = "S4" /\ script = <<>> /\ Active
    /\ Session.segments = <<SessionSegment(0, 100, "A")>>
    /\ "B" \in DOMAIN Session.open_segments

(* an event of another user leaves a's open entry alone, and leaves a's
   pending entry alone or finalizes it with its own bounds *)
OtherUserStep ==
    \A ev \in EventInputs : \A a \in Users :
        (Active /\ RecordSpeakingEvent(ev) /\ ev.user_id # a) =>
            /\ a \in DOMAIN Session.open_segments =>
                  /\ a \in DOMAIN SessionNext.open_segments
                  /\ SessionNext.open_segments[a] = Session.open_segments[a]
                  /\ SegmentsOf(SessionNext.segments, a) = SegmentsOf(Session.segments, a)
            /\ a \in DOMAIN Session.pending_cooldown =>
                  \/ /\ a \in DOMAIN SessionNext.pending_cooldown
                     /\ SessionNext.pending_cooldown[a] = Session.pending_cooldown[a]
                     /\ SegmentsOf(SessionNext.segments, a) = SegmentsOf(Session.segments, a)
                  \/ /\ a \notin DOMAIN SessionNext.open_segments
                     /\ FinalizedFromPending(a)

(* a user's own STOP closes the utterance at its own START and STOP times *)
OwnStopStep ==
    \A ev \in EventInputs :
        (StopStep(ev) /\ ev.user_id \in DOMAIN Session.open_segments) =>
            /\ ev.user_id \in DOMAIN SessionNext.pending_cooldown
            /\ SessionNext.pending_cooldown[ev.user_id]
                 = PendingSegment(Session.open_segments[ev.user_id], ev.at, ev.user_id)

InList(seg, l) == \E i \in DOMAIN l : l[i] = seg

(* C5: overlapping speakers.  While A is open, events of another user never
   change A's open start_ms; an utterance is bounded by its own user's START
   and STOP; S3 ends with both (0,800,A) and (200,1000,B) in the list. *)
C5_OverlappingSpeakers ==
    /\ [][OtherUserStep /\ OwnStopStep]_vars
    /\ [](Replayed("S3") =>
            /\ InList(SessionSegment(0, 800, "A"), Unwrap(returned).segments)
            /\ InList(SessionSegment(200, 1000, "B"), Unwrap(returned).segments)
            /\ Len(Unwrap(returned).segments) = 2)

(* S3 replayed and stopped: two overlapping segments of different users *)
C5_Witness ==
    /\ Replayed("S3")
    /\ \E i, j \in DOMAIN Unwrap(returned).segments :
          /\ Unwrap(returned).segments[i].user_id # Unwrap(returned).segments[j].user_id
          /\ ~Disjoint(Unwrap(returned).segments[i], Unwrap(returned).segments[j])

(* C6: a duplicate START for a user that is already open leaves open,
   pending and the segment list unchanged, for every user. *)
C6_DuplicateStartIgnored ==
    [][\A ev \in EventInputs :
          (StartStep(ev) /\ ev.user_id \in DOMAIN Session.open_segments) =>
              /\ SessionNext.open_segments = Session.open_segments
              /\ SessionNext.pending_cooldown = Session.pending_cooldown
              /\ SessionNext.segments = Session.segments]_vars

(* indices of list l holding a segment of user u *)
IndicesOf(l, u) == {i \in DOMAIN l : l[i].user_id = u}

(* stop_session, reached through stop_recording, on an active session *)
StopSessionStep ==
    (Active /\ SESSION_AUDIO_PATHS /\ StopRecording) =>
        /\ IsSome(returned')
        /\ ACTIVE_SESSION' = None
        /\ LET old == Session
               new == Unwrap(returned').segments
               n == Len(old.segments)
               tail == SubSeq(new, n + 1, Len(new))
           IN /\ SubSeq(new, 1, n) = old.segments
              /\ Len(tail) = Cardinality(DOMAIN old.pending_cooldown)
                                + Cardinality(DOMAIN old.open_segments)
              /\ \A u \in DOMAIN old.pending_cooldown :
                    /\ Cardinality(IndicesOf(tail, u)) = 1
                    /\ InList(SessionSegment(old.pending_cooldown[u].start_ms,
                                             old.pending_cooldown[u].stop_ms, u), tail)
              /\ \A u \in DOMAIN old.open_segments :
                    /\ Cardinality(IndicesOf(tail, u)) = 1
                    /\ \E now \in clock..clock' :
                          InList(SessionSegment(old.open_segments[u], now, u), tail)

(* events after the stop change nothing *)
AfterStopStep ==
    \A ev \in EventInputs :
        (IsSome(returned) /\ RecordSpeakingEvent(ev)) =>
            UNCHANGED <<ACTIVE_SESSION, returned, liveQueue>>

(* C7: stop_session finalizes every pending entry as (start_ms, stop_ms) and
   every open entry as (start_ms, now), each exactly once, after the segments
   already in the list; afterwards there is no active session and further
   events change nothing. *)
C7_StopSessionFinalizesAll ==
    /\ [][StopSessionStep /\ AfterStopStep]_vars
    /\ [](IsSome(returned) => ACTIVE_SESSION = None)

(* S3 stopped after STOP(A)@800: A was pending and B open at the stop *)
C7_Witness ==
    /\ scenario = "S3" /\ Len(script) = 1 /\ IsSome(returned)
    /\ Unwrap(returned).segments = <<SessionSegment(0, 800, "A"), SessionSegment(200, 800, "B")>>

(* user u is pending and its silence has reached merge_buffer_ms *)
PendingDue(u) ==
    /\ Active
    /\ u \in DOMAIN Session.pending_cooldown
    /\ clock - Session.pending_cooldown[u].stop_ms >= Session.segment_merge_buffer_ms

(* a recording is in progress: start_recording returned Ok, stop_recording
   was not called yet *)
Recording == calls = "started" /\ Active

(* C8 as stated: during a recording session a pending entry whose silence
   has reached merge_buffer_ms is eventually finalized (or merged) without
   another user's START and without stop_session. *)
C8_DueIsFlushed == \A u \in Users : (Recording /\ PendingDue(u)) ~> ~PendingDue(u)

(* C8 amended: during a recording session started in live mode the
   background tick eventually finalizes every pending entry whose silence
   has reached merge_buffer_ms and that no START of the same user merges. *)
C8_LiveDueIsFlushed ==
    \A u \in Users :
        (Recording /\ Session.live_mode_enabled /\ PendingDue(u)) ~> ~PendingDue(u)

(* a live recording holds a pending entry that is due *)
C8_Witness ==
    \E u \in Users : Recording /\ Session.live_mode_enabled /\ tickTask = "running" /\ PendingDue(u)

(* C9: whenever segments are appended to the session's list while a live
   publish channel is registered, copies of exactly those segments are sent
   on the channel, once each and in append order. *)
C9_EveryAppendPublished ==
    [][(Active /\ IsSome(ACTIVE_SESSION') /\ SEGMENT_FLUSH_TX
            /\ Len(SessionNext.segments) > Len(Session.segments))
          => liveQueue' = liveQueue \o SubSeq(SessionNext.segments,
                                              Len(Session.segments) + 1,
                                              Len(SessionNext.segments))]_vars

(* C10: in the state returned by stop_recording of a live session
   transcript_texts[i] is the text produced for segments[i] or empty, and
   every emitted transcript-segment event carries the position of its
   segment in the session's segment list. *)
C10_TextsAligned ==
    /\ (IsSome(returned) /\ Unwrap(returned).live_mode_enabled) =>
          \A i \in DOMAIN Unwrap(returned).segments :
              /\ i \in DOMAIN Unwrap(returned).transcript_texts
              /\ Unwrap(returned).transcript_texts[i]
                    \in {EmptyText, TextFor(Unwrap(returned).segments[i])}
    /\ \A k \in DOMAIN emitted :
          /\ emitted[k].index + 1 \in DOMAIN SegmentList
          /\ SegmentList[emitted[k].index + 1] = emitted[k].segment

(* C11: after any dispatch (transcribe_session_command, or stop_recording of
   a live session) the returned session state has at least as many
   transcript_texts as segments. *)
C11_TextsCoverSegments ==
    /\ (IsSome(returned) /\ Unwrap(returned).live_mode_enabled) =>
          Len(Unwrap(returned).transcript_texts) >= Len(Unwrap(returned).segments)
    /\ (IsSome(transcribed) /\ Unwrap(transcribed).ok) =>
          Len(Unwrap(Unwrap(transcribed).state).transcript_texts)
              >= Len(Unwrap(Unwrap(transcribed).state).segments)

(* a batch session with two segments and no texts went through the dispatch *)
C11_Witness ==
    /\ IsSome(returned) /\ ~Unwrap(returned).live_mode_enabled
    /\ Len(Unwrap(returned).segments) = 2 /\ Unwrap(returned).transcript_texts = <<>>
    /\ IsSome(transcribed) /\ Unwrap(transcribed).ok
    /\ Unwrap(Unwrap(transcribed).state).segments = Unwrap(returned).segments

(* C12: after any sequence of pushes the buffer holds at most `capacity`
   samples, and a push at capacity removes exactly one sample from the front
   and adds the pushed one at the back. *)
C12_RingCapacity ==
    /\ [](Len(buf.samples) <= capacity)
    /\ [][(Push /\ Len(buf.samples) = capacity) =>
            /\ buf'.samples = Append(Tail(buf.samples), pushed)
            /\ buf'.base_sample = buf.base_sample + 1]_vars
    /\ [][(Push /\ Len(buf.samples) < capacity) =>
            /\ buf'.samples = Append(buf.samples, pushed)
            /\ buf'.base_sample = buf.base_sample]_vars

(* the buffer is full and has dropped samples *)
C12_Witness == Len(buf.samples) = capacity /\ buf.base_sample > 1

(* the samples with absolute indices start_ms*16 .. end_ms*16-1 when that
   range lies within what the buffer holds, the empty sequence otherwise *)
ExtractReference(b, start_ms, end_ms) ==
    IF /\ start_ms < end_ms
       /\ start_ms * SAMPLES_PER_MS >= b.base_sample
       /\ end_ms * SAMPLES_PER_MS <= b.base_sample + Len(b.samples)
    THEN [i \in 1..((end_ms - start_ms) * SAMPLES_PER_MS) |-> start_ms * SAMPLES_PER_MS + i - 1]
    ELSE <<>>

(* C13: extract(a,b) returns exactly the (b-a)*16 samples with absolute
   indices a*16 .. b*16-1 when [a*16, b*16) is contained in
   [base_offset, base_offset+len), and the empty sequence in every other
   case, empty and inverted ranges included; with capacity 16 and samples
   0..31 pushed extract(0,1) is empty and extract(1,2) is samples 16..31. *)
C13_ExtractMatchesReference ==
    [][\A start_ms, end_ms \in 0..MaxMs :
          Extract(start_ms, end_ms) =>
              extracted' = Some([start_ms |-> start_ms, end_ms |-> end_ms,
                                 result |-> Returns(ExtractReference(buf, start_ms, end_ms))])]_vars

(* C14: in live mode every sample a capture thread produces is appended
   both to its WAV file and to the ring buffer of its stream, so the ring's
   sample count grows with the capture. *)
C14_CaptureFeedsRing ==
    \A st \in Streams :
        IsSome(BufferOf(st)) =>
            Unwrap(BufferOf(st)).base_sample + Len(Unwrap(BufferOf(st)).samples) = Len(wav[st])

(* ---------------------------------------------------------------------- *)
(* Properties of the RPC connection                                        *)
(* ---------------------------------------------------------------------- *)

(* nonces a connection can use: seven commands in the handshake, five for
   each channel switch *)
NonceIds == 1..(7 + 5 * MaxPeerFrames)

(* how often the nonce was fulfilled *)
Fulfillments(n) == Cardinality({i \in DOMAIN rpc.fulfilled : rpc.fulfilled[i] = n})

(* the connection is gone: the task has returned or the peer has closed *)
TornDown == rpc.pc = "done" \/ peer.closed # "open"

(* C15: every nonce stored in the pending map or in the channel-refresh slot
   is fulfilled exactly once by the frame that carries it, or the connection
   is torn down: on a connection that stays up no stored nonce stays
   unfulfilled forever, and none is fulfilled twice. *)
C15_StoredNonceFulfilledOnce ==
    /\ [](\A n \in NonceIds : Fulfillments(n) <= 1)
    /\ \A n \in NonceIds : (n \in rpc.stored) ~> (Fulfillments(n) = 1 \/ TornDown)

(* connect() has returned Ok and the connection is Subscribed *)
HandshakeDone == connectReturned = Some("Ok") /\ rpc.connection_state = "Subscribed"

(* C16: on both transports, if the peer sends READY and answers every request
   with a usable frame carrying the request's nonce, and the token exchange
   succeeds, the handshake eventually completes: connect() returns and the
   connection reaches Subscribed. *)
C16_HandshakeCompletes ==
    (rpc.transport \in {"ipc", "ws"}) ~> (peer.faulty \/ HandshakeDone)

(* C17: when connect() or connect_with_refresh_token() returns Ok the
   connection has already reached Subscribed: the ready signal is given only
   after the three SUBSCRIBE requests were answered. *)
C17_OkMeansSubscribed ==
    [][ConnectReturns /\ connectReturned' = Some("Ok") => rpc.connection_state = "Subscribed"]_vars

(* what a command asks for: cmd, evt and the channel in args *)
Sig(frame) == <<frame.cmd, frame.evt, frame.channel>>

(* the frames the client writes in a step *)
NewFrames ==
    [i \in 1..(Len(rpc'.sent) - Len(rpc.sent)) |-> Sig(rpc'.sent[Len(rpc.sent) + i])]

(* the event loop reads the VOICE_CHANNEL_SELECT for c2 while c1 is current *)
ReadsSelect(c1, c2) ==
    /\ IpcEventLoop
    /\ inbox # <<>> /\ Head(inbox) = SelectFrame(c2)
    /\ rpc.current_channel_id = Some(c1)

(* the event loop reads the GET_CHANNEL response for c2 whose nonce is in
   the slot, stored while c1 was current *)
ReadsChannel(c1, c2) ==
    /\ IpcEventLoop
    /\ inbox # <<>> /\ Head(inbox).op = OPCODE_FRAME
    /\ IsSome(rpc.channel_refresh)
    /\ Head(inbox).nonce = Unwrap(rpc.channel_refresh).nonce
    /\ Unwrap(rpc.channel_refresh).old_ch_id = Some(c1)
    /\ Head(inbox).present /\ Head(inbox).id = c2

(* the response to the first SUBSCRIBE of the switch to c2 is read *)
ReadsSubscribed(c2) ==
    /\ IpcReadResponse
    /\ rpc.pc = "REFRESH_START" /\ rpc.channel_id = Some(c2)
    /\ inbox # <<>> /\ Head(inbox).op = OPCODE_FRAME
    /\ Head(inbox).evt # "ERROR" /\ Head(inbox).nonce = rpc.awaited

(* C18 (S6): in the event loop of a Subscribed connection whose current
   channel is C1, a VOICE_CHANNEL_SELECT for C2 makes the client send
   GET_CHANNEL(C2) and store its nonce with C1; when the response with that
   nonce is read, UNSUBSCRIBE is sent for C1 for SPEAKING_START and
   SPEAKING_STOP, then SUBSCRIBE for C2 for SPEAKING_START and, once that is
   answered, for SPEAKING_STOP, and Channel Info holds C2. *)
C18_ChannelSwitch ==
    [][\A c1, c2 \in Channels :
          /\ ReadsSelect(c1, c2) =>
                /\ NewFrames = << <<"GET_CHANNEL", "", c2>> >>
                /\ rpc'.channel_refresh =
                       Some([nonce |-> rpc'.sent[Len(rpc'.sent)].nonce, old_ch_id |-> Some(c1)])
          /\ ReadsChannel(c1, c2) =>
                /\ NewFrames = << <<"UNSUBSCRIBE", "SPEAKING_START", c1>>,
                                  <<"UNSUBSCRIBE", "SPEAKING_STOP", c1>>,
                                  <<"SUBSCRIBE", "SPEAKING_START", c2>> >>
                /\ rpc'.CHANNEL_INFO = Some(c2)
          /\ ReadsSubscribed(c2) =>
                /\ NewFrames = << <<"SUBSCRIBE", "SPEAKING_STOP", c2>> >>
                /\ rpc'.CHANNEL_INFO = Some(c2)]_vars

(* S6 has run to its end: the last five commands are those of the switch from
   C1 to C2 and the task is back in the event loop *)
C18_Witness ==
    /\ rpc.pc = "LOOP" /\ rpc.connection_state = "Subscribed"
    /\ rpc.CHANNEL_INFO = Some("C2")
    /\ Len(rpc.sent) >= 5
    /\ [i \in 1..5 |-> Sig(rpc.sent[Len(rpc.sent) - 5 + i])] =
          << <<"GET_CHANNEL", "", "C2">>,
             <<"UNSUBSCRIBE", "SPEAKING_START", "C1">>,
             <<"UNSUBSCRIBE", "SPEAKING_STOP", "C1">>,
             <<"SUBSCRIBE", "SPEAKING_START", "C2">>,
             <<"SUBSCRIBE", "SPEAKING_STOP", "C2">> >>

(* the client takes the next frame off the transport in this step *)
ReadsFrame == inbox # <<>> /\ inbox' = Tail(inbox)

(* a SPEAKING_START / SPEAKING_STOP frame that carries a user_id *)
IsSpeaking(f) ==
    /\ f.op = OPCODE_FRAME /\ f.evt \in {"SPEAKING_START", "SPEAKING_STOP"}
    /\ f.present /\ f.user_id # ""

(* C19: once the connection is Subscribed, every SPEAKING_START /
   SPEAKING_STOP frame with a user_id that the client receives is delivered to
   the segmenter channel exactly once, with its kind and in arrival order,
   also while a channel switch is being processed; any other frame delivers
   nothing. *)
C19_SpeakingDelivered ==
    [][/\ (ReadsFrame /\ IsSpeaking(Head(inbox)) /\ rpc.connection_state = "Subscribed") =>
             rpc'.delivered =
                 Append(rpc.delivered, SpeakingEvent(Head(inbox).evt, Head(inbox).user_id))
       /\ ~(ReadsFrame /\ IsSpeaking(Head(inbox))) => rpc'.delivered = rpc.delivered]_vars

(* C20: on the named pipe every PING frame the client receives, in the READY
   wait, in a request/response wait or in the event loop, is answered with
   one PONG frame that carries the PING payload unchanged. *)
C20_PingAnswered ==
    [][(rpc.transport = "ipc" /\ ReadsFrame /\ Head(inbox).op = OPCODE_PING) =>
          rpc'.sent = Append(rpc.sent, Pong(Head(inbox).text))]_vars

(* the client reads an ERROR event in this step *)
ReadsError == ReadsFrame /\ Head(inbox).op = OPCODE_FRAME /\ Head(inbox).evt = "ERROR"

(* C21: an ERROR event received at any point after the connection is
   Subscribed moves connection_state to Error, ends the event loop and clears
   the process-wide connected flag. *)
C21_ErrorEndsConnection ==
    [][(ReadsError /\ rpc.connection_state = "Subscribed") =>
          /\ rpc'.connection_state = "Error"
          /\ rpc'.pc = "done"
          /\ ~rpc'.RPC_CONNECTED]_vars

(* the event loop ends in this step because the transport closed: a CLOSE
   frame, the end of the stream, or a failed read *)
LoopEndsByClose ==
    /\ IpcEventLoop
    /\ rpc'.pc = "done"
    /\ \/ inbox # <<>> /\ Head(inbox).op = OPCODE_CLOSE
       \/ inbox = <<>>

(* C22: when the event loop of a Subscribed connection ends because the
   transport closed, connection_state leaves Subscribed and becomes
   Disconnected or Error; it is not left at Subscribed. *)
C22_CloseLeavesSubscribed ==
    [][LoopEndsByClose => rpc'.connection_state \in {"Disconnected", "Error"}]_vars

(* the response to GET_SELECTED_VOICE_CHANNEL is read and carries no channel *)
ReadsNoChannel ==
    /\ IpcReadResponse
    /\ rpc.pc = "GET_SELECTED_VOICE_CHANNEL"
    /\ inbox # <<>> /\ Head(inbox).op = OPCODE_FRAME
    /\ Head(inbox).evt # "ERROR" /\ Head(inbox).nonce = rpc.awaited
    /\ ~(Head(inbox).present /\ Head(inbox).id # "")

(* a SUBSCRIBE request was written *)
SubscribeSent == \E i \in DOMAIN rpc.sent : rpc.sent[i].cmd = "SUBSCRIBE"

(* C23: if the GET_SELECTED_VOICE_CHANNEL response carries no channel,
   connect() fails with the join-a-voice-channel message, Channel Info is not
   published, the connected flag is never set and no SUBSCRIBE request is
   sent. *)
C23_NoChannelFails ==
    /\ [][ReadsNoChannel => rpc'.error = NotInVoice]_vars
    /\ [](rpc.error = NotInVoice =>
             /\ rpc.pc = "done" /\ rpc.ready_tx = "err"
             /\ connectReturned # Some("Ok")
             /\ rpc.CHANNEL_INFO = None
             /\ ~rpc.RPC_CONNECTED
             /\ ~SubscribeSent)

(* connect() has failed with the join-a-voice-channel message *)
C23_Witness == rpc.error = NotInVoice /\ connectReturned = Some("Err")

(* ---------------------------------------------------------------------- *)
(* Properties of the transcription dispatch                                *)
(* ---------------------------------------------------------------------- *)

(* a segment that holds no audio *)
IsEmptySegment(seg) == seg.end_ms <= seg.start_ms

(* in this session state every empty segment has the empty string at its own
   index *)
EmptyAtOwnIndex(state) ==
    \A i \in DOMAIN state.segments :
        IsEmptySegment(state.segments[i]) =>
            /\ i \in DOMAIN state.transcript_texts
            /\ state.transcript_texts[i] = EmptyText

(* C24: a segment with end_ms <= start_ms is recorded as an empty string at
   its own index in transcript_texts and no backend is invoked for it, in the
   state a batch dispatch returns and in the state stop_recording returns for
   a live session. *)
C24_EmptySegmentPolicy ==
    /\ (IsSome(transcribed) /\ Unwrap(transcribed).ok) =>
          EmptyAtOwnIndex(Unwrap(Unwrap(transcribed).state))
    /\ (IsSome(returned) /\ Unwrap(returned).live_mode_enabled) =>
          EmptyAtOwnIndex(Unwrap(returned))
    /\ IsSome(workerSeg) => ~IsEmptySegment(Unwrap(workerSeg))

(* C25: in a batch dispatch a failure while processing segment i (slice
   extraction, missing backend, subprocess that cannot be started, non-zero
   exit, remote error) never prevents the segments after i from being
   attempted, and the command still returns a session state that holds a
   text for every segment. *)
C25_PerSegmentResilience ==
    (IsSome(transcribed) /\ Unwrap(transcribed).attempted # {}) =>
        /\ Unwrap(transcribed).attempted = 1..Unwrap(transcribed).total
        /\ Unwrap(transcribed).ok
        /\ Len(Unwrap(Unwrap(transcribed).state).transcript_texts) >= Unwrap(transcribed).total

(* C26: a backend runtime failure on a segment (non-zero exit of the
   subprocess, remote error) records the sentinel text
   [Transcription error: ...] at that segment's index and processing goes on,
   in a batch dispatch and in the live worker. *)
C26_RuntimeFailureSentinel ==
    [][/\ \A state \in DispatchInputs :
            \A outcome \in [DOMAIN state.segments -> DispatchOutcomes] :
                (TranscribeSessionCommand(state, outcome, FALSE)
                    /\ AbortAt(state.segments, outcome) = 0) =>
                   \A i \in DOMAIN state.segments :
                       (outcome[i] = "error" /\ ~IsEmptySegment(state.segments[i])) =>
                           Unwrap(Unwrap(transcribed').state).transcript_texts[i]
                               = ErrorText(state.segments[i])
       /\ WorkerTranscribe("error") =>
             (worker' = "push" /\ workerText' = ErrorText(Unwrap(workerSeg)))]_vars

(* C27: once stop_recording has returned, a result the live worker of that
   session produces later is discarded: the state that was returned stays as
   it is, and no state returned for a later session holds a text the earlier
   worker wrote, however the earlier worker interleaves with the following
   start_recording and stop_recording. *)
C27_LateResultDiscarded ==
    /\ [][(calls = "stopped" /\ calls' = "stopped") => returned' = returned]_vars
    /\ [](previous.stale = {})

(* ---------------------------------------------------------------------- *)
(* Properties of the capture threads                                       *)
(* ---------------------------------------------------------------------- *)

(* the capture thread of the other stream *)
OtherStream(st) == CHOOSE o \in Streams : o # st

(* a failing capture thread touches neither the stop flag nor the other
   thread nor a WAV file *)
FailureIsLocal ==
    \A st \in Streams :
        CaptureFail(st) =>
            /\ stop_flag' = stop_flag
            /\ captureThread'[OtherStream(st)] = captureThread[OtherStream(st)]
            /\ wav' = wav

(* after one thread failed, the other stays in its capture loop for as long
   as stop is not requested and it does not fail itself *)
OtherKeepsCapturing ==
    \A st \in Streams :
        (/\ captureThread[st] = "failed"
         /\ captureThread[OtherStream(st)] = "running"
         /\ ~stop_flag
         /\ ~CaptureFail(OtherStream(st))) =>
            captureThread'[OtherStream(st)] = "running"

(* C28: if one capture thread fails to open or read its endpoint, the other
   keeps capturing until stop is requested, and the failing thread does not
   set the shared stop flag. *)
C28_FailureIsolation == [][FailureIsLocal /\ OtherKeepsCapturing]_vars

(* every sample the thread of stream st read from its device is in its WAV
   file: the k-th sample has the value k *)
WrittenOut(st) == \A k \in 1..Len(wav[st]) : wav[st][k] = k - 1

(* C29: after stop_audio_capture has set the stop flag, each capture thread
   that is in its capture loop eventually finalizes its WAV, with every
   sample it read written out, and exits, unless a device or writer call
   fails first. *)
C29_StopFinalizes ==
    /\ \A st \in Streams :
          (stop_flag /\ captureThread[st] = "running") ~>
              (captureThread[st] \in {"finalized", "failed"})
    /\ [](\A st \in Streams : captureThread[st] = "finalized" => WrittenOut(st))

C29_Witness ==
    /\ stop_flag
    /\ \A st \in Streams : captureThread[st] = "finalized" /\ Len(wav[st]) > 0

(* ---------------------------------------------------------------------- *)
(* Properties of the handshake                                             *)
(* ---------------------------------------------------------------------- *)

(* the requests among the frames the client has written *)
RequestsSent(c) == SelectSeq(c.sent, LAMBDA f : f.op = OPCODE_FRAME)

(* the step of the handshake a request belongs to *)
HandshakeStep(f) == IF f.cmd = "SUBSCRIBE" THEN f.evt ELSE f.cmd

(* the step before the request that is about to be sent *)
PreviousStep ==
    IF RequestsSent(rpc) = <<>> THEN "READY"
    ELSE HandshakeStep(RequestsSent(rpc)[Len(RequestsSent(rpc))])

(* this step of the connection task writes a request of the handshake *)
SendsRequest ==
    /\ rpc.connection_state # "Subscribed"
    /\ Len(RequestsSent(rpc')) = Len(RequestsSent(rpc)) + 1

NextStep == HandshakeStep(RequestsSent(rpc')[Len(RequestsSent(rpc'))])

(* the order of the handshake *)
Follows(prev, next, override) ==
    CASE next = "AUTHORIZE" -> prev = "READY" /\ ~override
      [] next = "AUTHENTICATE" -> prev = IF override THEN "READY" ELSE "AUTHORIZE"
      [] next = "GET_SELECTED_VOICE_CHANNEL" -> prev = "AUTHENTICATE"
      [] next = "GET_GUILD" -> prev = "GET_SELECTED_VOICE_CHANNEL"
      [] next = "VOICE_CHANNEL_SELECT" -> prev \in {"GET_SELECTED_VOICE_CHANNEL", "GET_GUILD"}
      [] next = "SPEAKING_START" -> prev = "VOICE_CHANNEL_SELECT"
      [] next = "SPEAKING_STOP" -> prev = "SPEAKING_START"
      [] OTHER -> FALSE

(* this step reads the answer to the previous step: the READY event, or the
   frame that carries the nonce of the last request *)
ResponseReceived ==
    /\ inbox # <<>>
    /\ inbox' = Tail(inbox)
    /\ Head(inbox).op = OPCODE_FRAME
    /\ IF RequestsSent(rpc) = <<>> THEN Head(inbox).evt = "READY"
       ELSE Head(inbox).nonce = RequestsSent(rpc)[Len(RequestsSent(rpc))].nonce

(* RpcConnectionState on the way to Subscribed *)
StateOrder == <<"Disconnected", "Connecting", "AwaitingAuth", "Authenticated", "Subscribed">>

StateAdvances ==
    \/ rpc'.connection_state = rpc.connection_state
    \/ rpc'.connection_state = "Error"
    \/ \E i \in 1..(Len(StateOrder) - 1) :
          rpc.connection_state = StateOrder[i] /\ rpc'.connection_state = StateOrder[i + 1]

(* C30: the handshake requests are sent in the order AUTHORIZE (fresh
   authorization only), AUTHENTICATE, GET_SELECTED_VOICE_CHANNEL, GET_GUILD
   (optional), SUBSCRIBE VOICE_CHANNEL_SELECT, SUBSCRIBE SPEAKING_START,
   SUBSCRIBE SPEAKING_STOP, each only after the response to the previous one
   was received, and connection_state passes Connecting, AwaitingAuth,
   Authenticated, Subscribed in that order without skipping or going back. *)
C30_HandshakeOrder ==
    [][/\ SendsRequest =>
             /\ Follows(PreviousStep, NextStep, rpc.access_token_override)
             /\ ResponseReceived
       /\ StateAdvances]_vars

(* ---------------------------------------------------------------------- *)
(* Properties of the ring buffer offsets                                   *)
(* ---------------------------------------------------------------------- *)

(* C31: base_sample never decreases, changes only on a push at capacity (by
   exactly 1), and in every reachable state base_sample + len equals the
   number of samples pushed since creation. *)
C31_OffsetAccounting ==
    /\ [][/\ buf'.base_sample >= buf.base_sample
           /\ buf'.base_sample # buf.base_sample =>
                 /\ Push
                 /\ Len(buf.samples) >= capacity
                 /\ buf'.base_sample = buf.base_sample + 1]_vars
    /\ [](buf.base_sample + Len(buf.samples) = pushed)

C31_Witness == buf.base_sample = 2 /\ Len(buf.samples) = capacity

(* ---------------------------------------------------------------------- *)
(* Properties of the live worker's shutdown                                *)
(* ---------------------------------------------------------------------- *)

(* the live worker task is alive *)
WorkerAlive == worker \in {"idle", "busy", "push"}

(* C32: after stop_recording has cleared the live publish channel, the live
   worker takes the segments already queued and then terminates, provided
   each backend invocation returns. *)
C32_WorkerTerminates ==
    /\ (calls = "stopped" /\ WorkerAlive) ~> (worker = "exited")
    /\ [](worker = "exited" => (liveQueue = <<>> /\ ~SEGMENT_FLUSH_TX))
    /\ [][(calls = "stopped" /\ liveQueue' # liveQueue) => (WorkerRecv /\ liveQueue' = Tail(liveQueue))]_vars

C32_Witness == calls = "stopped" /\ worker = "exited" /\ emitted # <<>>

(* ---------------------------------------------------------------------- *)
(* Properties of the segmenter's maps and list                             *)
(* ---------------------------------------------------------------------- *)

OpenUsers == IF IsSome(ACTIVE_SESSION) THEN DOMAIN Unwrap(ACTIVE_SESSION).open_segments ELSE {}
PendingUsers == IF IsSome(ACTIVE_SESSION) THEN DOMAIN Unwrap(ACTIVE_SESSION).pending_cooldown ELSE {}

(* C33: in every reachable state of the segmenter no user_id is in both
   open_segments and pending_cooldown, and no transition puts a user into
   one map while the user stays in the other. *)
C33_OpenPendingDisjoint ==
    /\ [](OpenUsers \cap PendingUsers = {})
    /\ [][/\ (OpenUsers' \ OpenUsers) \cap PendingUsers' = {}
           /\ (PendingUsers' \ PendingUsers) \cap OpenUsers' = {}]_vars

C33_Witness ==
    /\ "A" \in OpenUsers /\ "B" \in PendingUsers
    /\ Unwrap(ACTIVE_SESSION).open_segments["A"] < Unwrap(ACTIVE_SESSION).pending_cooldown["B"].start_ms

(* the segment list of the active session *)
SessionSegments == Unwrap(ACTIVE_SESSION).segments

IsPrefix(a, b) == Len(a) <= Len(b) /\ SubSeq(b, 1, Len(a)) = a

(* C34: the session's segment list is append-only: no event, flush or
   stop_session changes, removes or reorders a stored segment, so every
   earlier state of the list is a prefix of the list stop_session returns. *)
C34_SegmentsAppendOnly ==
    [][IsSome(ACTIVE_SESSION) =>
          IF IsSome(ACTIVE_SESSION')
          THEN IsPrefix(SessionSegments, SessionSegments')
          ELSE IsSome(returned') /\ IsPrefix(SessionSegments, Unwrap(returned').segments)]_vars

C34_Witness ==
    /\ calls = "stopped" /\ IsSome(returned)
    /\ Len(Unwrap(returned).segments) = 2
    /\ Unwrap(returned).segments[1].start_ms > Unwrap(returned).segments[2].start_ms

(* the tick, reading the clock value elapsed, finalizes the pending entry of
   user u *)
TickSplits(u, elapsed) ==
    FlushDue(elapsed, Unwrap(ACTIVE_SESSION).pending_cooldown[u],
             Unwrap(ACTIVE_SESSION).segment_merge_buffer_ms)

(* a START of user u, reading the clock value elapsed, merges the pending
   entry of u *)
StartMerges(u, elapsed) ==
    MergeGap(saturating_sub(elapsed, Unwrap(ACTIVE_SESSION).pending_cooldown[u].stop_ms),
             Unwrap(ACTIVE_SESSION).segment_merge_buffer_ms)

(* C35: the periodic flush finalizes a pending entry of user u only at a
   clock value at which a START(u) arriving at that same clock value would
   no longer merge it: for no gap does the tick split the utterance while a
   START merges it. *)
C35_ThresholdsConsistent ==
    (tickTask = "running" /\ WAS_LIVE_RECORDING) =>
        \A u \in PendingUsers : \A elapsed \in ClockReads :
            ~(TickSplits(u, elapsed) /\ StartMerges(u, elapsed))

(* ---------------------------------------------------------------------- *)
(* Properties of the channel subscriptions                                 *)
(* ---------------------------------------------------------------------- *)

IsRequest(f, cmd, evt, ch) ==
    f.op = OPCODE_FRAME /\ f.cmd = cmd /\ f.evt = evt /\ f.channel = ch

(* channels with an active subscription to evt: SUBSCRIBE sent and not
   followed by UNSUBSCRIBE *)
ActiveChannels(evt) ==
    {ch \in Channels :
        \E i \in DOMAIN rpc.sent :
            /\ IsRequest(rpc.sent[i], "SUBSCRIBE", evt, ch)
            /\ \A j \in DOMAIN rpc.sent :
                  j > i => ~IsRequest(rpc.sent[j], "UNSUBSCRIBE", evt, ch)}

(* the event loop has handled every frame written to it, and the response to
   every request it sent *)
Settled ==
    /\ rpc.transport = "ipc" /\ rpc.pc = "LOOP"
    /\ inbox = <<>>
    /\ Unanswered = {}
    /\ rpc.channel_refresh = None

CurrentChannels ==
    IF IsSome(rpc.current_channel_id) THEN {Unwrap(rpc.current_channel_id)} ELSE {}

(* C36: after any sequence of VOICE_CHANNEL_SELECT events whose GET_CHANNEL
   responses have all been processed, the channels with an active
   SPEAKING_START / SPEAKING_STOP subscription are exactly the current
   channel, or none when the user is in no channel. *)
C36_SubscriptionConsistency ==
    Settled => \A evt \in {"SPEAKING_START", "SPEAKING_STOP"} : ActiveChannels(evt) = CurrentChannels

(* C37: after a VOICE_CHANNEL_SELECT with a null channel id has been
   handled, Channel Info is empty and stays empty until the next
   VOICE_CHANNEL_SELECT with a non-null channel id is received; a GET_CHANNEL
   response still in flight from an earlier select does not set it again. *)
C37_NullSelectClears == rpc.last_select = "null" => rpc.CHANNEL_INFO = None

(* C38: whenever the connection task has terminated, for any reason (CLOSE
   frame, end of stream, read error, send error, ERROR event after
   subscription), the process-wide connected flag is false. *)
C38_TerminatedMeansDisconnected == rpc.pc = "done" => ~rpc.RPC_CONNECTED

(* ---------------------------------------------------------------------- *)
(* Properties of start_recording and stop_recording                        *)
(* ---------------------------------------------------------------------- *)

(* C39: if start_recording fails because audio capture cannot be started, it
   leaves nothing behind: no active session, no registered live publish
   channel, no live-recording flag and no running flush tick or live worker;
   a following stop_recording returns no session state. *)
C39_FailedStartLeavesNothing ==
    /\ [](calls = "start_failed" =>
             /\ ACTIVE_SESSION = None
             /\ ~SEGMENT_FLUSH_TX
             /\ ~WAS_LIVE_RECORDING
             /\ tickTask # "running"
             /\ ~WorkerAlive)
    /\ [][(calls = "start_failed" /\ StopRecording) => returned' = None]_vars

(* C40: for every sequence of start_recording and stop_recording calls, two
   start_recording calls with no stop in between included, every pair of
   capture threads ever started has its stop flag set by a later
   stop_recording, so that after the last stop_recording no capture thread
   keeps running. *)
C40_EveryCaptureStopped ==
    calls = "stopped" => \A i \in DOMAIN stop_flags : stop_flags[i]

====
